---- MODULE Spec2Model ----
(***************************************************************************)
(* Health checker of ClaudeCodeCoach: the detector registry                *)
(* (health_checks/__init__.py), the detectors (health_checks/*/*.py) and   *)
(* the HealthChecker service (services/health_checker.py).                 *)
(***************************************************************************)
EXTENDS Integers, Sequences, FiniteSets, TLC

VARIABLES
    _detectors,       \* health_checks._detectors: the registry catalog (classes)
    _health_checker,  \* services.health_checker._health_checker (the singleton)
    nextId,           \* allocation counter: identity of the next list of instances
    got,              \* the list returned by the last direct get_all_detectors()
    project,          \* the files under the scanned project root
    home,             \* ~/.claude of the user running the scan
    report,           \* the HealthReport returned by the last check_project
    calls,            \* the detector invocations of the last check_project
    lastScan,         \* bookkeeping about the last check_project call
    arg_issues,       \* _calculate_score: the issues argument
    arg_total,        \* _calculate_score: the total_checks argument
    ret_score,        \* _calculate_score: the returned score (-1: not called)
    scoreOp,          \* how the arguments of the last _calculate_score call arose
    det,              \* the last direct detector.check call and what it returned
    made,             \* the last HealthReport constructed directly, and from what
    shown,            \* the last score given to get_score_label / get_score_color
    memo              \* the first scan of the checker, as an observer noted it

vars == <<_detectors, _health_checker, nextId, got, project, home,
          report, calls, lastScan, arg_issues, arg_total, ret_score, scoreOp,
          det, made, shown, memo>>

(***************************************************************************)
(* Severity and HealthIssue (health_checks/base.py)                        *)
(***************************************************************************)
CRITICAL == "critical"
WARNING == "warning"
INFO == "info"
Severity == {CRITICAL, WARNING, INFO}

\* file_path = "" stands for None
HealthIssue(rule_id, severity, file_path) ==
    [rule_id |-> rule_id, severity |-> severity, file_path |-> file_path]

\* What one detector.check call does: return an issue, return None, or raise.
Found(issue) == [kind |-> "issue", issue |-> issue]
Absent == [kind |-> "None", issue |-> HealthIssue("", "", "")]
Raised == [kind |-> "raise", issue |-> HealthIssue("", "", "")]

(***************************************************************************)
(* The file system as the detectors observe it.                            *)
(*   exists      relative paths for which Path.exists() is true            *)
(*   dirs        those of them that are directories                        *)
(*   unreadable  files on which open()/read raises                         *)
(*   denied      paths in a directory the user may not search: stat() on   *)
(*               them raises PermissionError                               *)
(*   lines       line count of each CLAUDE.md candidate                    *)
(*   gitignore   the lines of .gitignore                                   *)
(*   json        what json.load gives for each settings file               *)
(*   sources     the source files found by rglob                           *)
(*   root        the parts of the absolute project path                    *)
(***************************************************************************)
exists(fs, p) == p \in fs.exists
is_dir(fs, p) == p \in fs.dirs
\* open(p) followed by a read succeeds
CanRead(fs, p) == p \in fs.exists /\ p \notin fs.dirs /\ p \notin fs.unreadable

SettingsJson == ".claude/settings.json"
SettingsLocalJson == ".claude/settings.local.json"
settings_paths == <<SettingsJson, SettingsLocalJson>>

\* json.load(f) of a settings file: "corrupt" raises, "nonobject" is a JSON
\* value that is not an object, "object" is a dict with the three sections
\* the detectors look at.
Missing == [kind |-> "missing", keys |-> {}, n |-> 0, entries |-> <<>>]
NotDict == [kind |-> "other", keys |-> {}, n |-> 0, entries |-> <<>>]
EnvDict(keys) == [kind |-> "dict", keys |-> keys, n |-> Cardinality(keys), entries |-> <<>>]
McpDict(n) == [kind |-> "dict", keys |-> {}, n |-> n, entries |-> <<>>]
HooksDict(entries) == [kind |-> "dict", keys |-> {}, n |-> Len(entries), entries |-> entries]
JsonObject(env, mcp, hooks) ==
    [kind |-> "object", env |-> env, mcpServers |-> mcp, hooks |-> hooks]
JsonCorrupt == [kind |-> "corrupt", env |-> Missing, mcpServers |-> Missing, hooks |-> Missing]
JsonNonObject == [kind |-> "nonobject", env |-> Missing, mcpServers |-> Missing, hooks |-> Missing]

\* with open(path) as f: settings = json.load(f) does not raise
Loads(fs, p) == CanRead(fs, p) /\ fs.json[p].kind # "corrupt"

\* "env" in settings and isinstance(settings["env"], dict) and key in settings["env"]
EnvHas(js, key) ==
    /\ js.kind = "object"
    /\ js.env.kind = "dict"
    /\ key \in js.env.keys

(***************************************************************************)
(* Detector classes: rule_id and severity attributes                       *)
(***************************************************************************)
DetectorClasses ==
    <<"BloatedClaudeMdDetector", "SecretsExposedDetector", "McpOverloadDetector",
      "NoGitignoreDetector", "NoSkillsDirDetector", "NoCommandsDirDetector",
      "NoStatusMdDetector", "NoChangelogMdDetector", "NoPlanningDocsDetector",
      "NoArchitectureMdDetector", "ModelNotSetDetector", "ThinkingNotEnabledDetector",
      "NoAgentsDirDetector", "NoHooksDetector", "InvalidHookKeysDetector",
      "LargeFilesDetector", "NoTestsDirDetector", "NoReadmeDetector",
      "NoInitCommandDetector", "NoCommitCommandDetector", "NoWorktreesDetector",
      "NoGithubActionsDetector", "MissingEnvExampleDetector">>

\* mutant: no_commit_command.py keeps the rule_id of the file it was copied from
rule_id_copied(cls) ==
    CASE cls = "BloatedClaudeMdDetector" -> "bloated_claude_md"
      [] cls = "SecretsExposedDetector" -> "secrets-exposed"
      [] cls = "McpOverloadDetector" -> "mcp-overload"
      [] cls = "NoGitignoreDetector" -> "no-gitignore"
      [] cls = "NoSkillsDirDetector" -> "no-skills-dir"
      [] cls = "NoCommandsDirDetector" -> "no-commands-dir"
      [] cls = "NoStatusMdDetector" -> "no-status-md"
      [] cls = "NoChangelogMdDetector" -> "no-changelog-md"
      [] cls = "NoPlanningDocsDetector" -> "no-planning-docs"
      [] cls = "NoArchitectureMdDetector" -> "no-architecture-md"
      [] cls = "ModelNotSetDetector" -> "model-not-set"
      [] cls = "ThinkingNotEnabledDetector" -> "thinking-not-enabled"
      [] cls = "NoAgentsDirDetector" -> "no-agents-dir"
      [] cls = "NoHooksDetector" -> "no-hooks"
      [] cls = "InvalidHookKeysDetector" -> "invalid-hook-keys"
      [] cls = "LargeFilesDetector" -> "large-files"
      [] cls = "NoTestsDirDetector" -> "no-tests-dir"
      [] cls = "NoReadmeDetector" -> "no-readme"
      [] cls = "NoInitCommandDetector" -> "no-init-command"
      [] cls = "NoCommitCommandDetector" -> "no-init-command"
      [] cls = "NoWorktreesDetector" -> "no-worktrees-setup"
      [] cls = "NoGithubActionsDetector" -> "no-github-actions"
      [] cls = "MissingEnvExampleDetector" -> "missing-env-example"
      [] OTHER -> "base"

rule_id(cls) ==
    CASE cls = "BloatedClaudeMdDetector" -> "bloated_claude_md"
      [] cls = "SecretsExposedDetector" -> "secrets-exposed"
      [] cls = "McpOverloadDetector" -> "mcp-overload"
      [] cls = "NoGitignoreDetector" -> "no-gitignore"
      [] cls = "NoSkillsDirDetector" -> "no-skills-dir"
      [] cls = "NoCommandsDirDetector" -> "no-commands-dir"
      [] cls = "NoStatusMdDetector" -> "no-status-md"
      [] cls = "NoChangelogMdDetector" -> "no-changelog-md"
      [] cls = "NoPlanningDocsDetector" -> "no-planning-docs"
      [] cls = "NoArchitectureMdDetector" -> "no-architecture-md"
      [] cls = "ModelNotSetDetector" -> "model-not-set"
      [] cls = "ThinkingNotEnabledDetector" -> "thinking-not-enabled"
      [] cls = "NoAgentsDirDetector" -> "no-agents-dir"
      [] cls = "NoHooksDetector" -> "no-hooks"
      [] cls = "InvalidHookKeysDetector" -> "invalid-hook-keys"
      [] cls = "LargeFilesDetector" -> "large-files"
      [] cls = "NoTestsDirDetector" -> "no-tests-dir"
      [] cls = "NoReadmeDetector" -> "no-readme"
      [] cls = "NoInitCommandDetector" -> "no-init-command"
      [] cls = "NoCommitCommandDetector" -> "no-commit-command"
      [] cls = "NoWorktreesDetector" -> "no-worktrees-setup"
      [] cls = "NoGithubActionsDetector" -> "no-github-actions"
      [] cls = "MissingEnvExampleDetector" -> "missing-env-example"
      [] OTHER -> "base"

severity(cls) ==
    CASE cls \in {"BloatedClaudeMdDetector", "SecretsExposedDetector",
                  "McpOverloadDetector", "NoGitignoreDetector"} -> CRITICAL
      [] cls \in {"NoInitCommandDetector", "NoCommitCommandDetector",
                  "NoWorktreesDetector", "NoGithubActionsDetector",
                  "MissingEnvExampleDetector", "BaseDetector"} -> INFO
      [] OTHER -> WARNING

\* The fix_prompt attribute of a class: the text is modelled by the class that
\* defines it and its length; BaseDetector defines none.
PromptLength(cls) ==
    CASE cls = "BloatedClaudeMdDetector" -> 968
      [] cls = "SecretsExposedDetector" -> 635
      [] cls = "McpOverloadDetector" -> 868
      [] cls = "NoGitignoreDetector" -> 555
      [] cls = "NoSkillsDirDetector" -> 813
      [] cls = "NoCommandsDirDetector" -> 986
      [] cls = "NoStatusMdDetector" -> 775
      [] cls = "NoChangelogMdDetector" -> 1179
      [] cls = "NoPlanningDocsDetector" -> 1238
      [] cls = "NoArchitectureMdDetector" -> 1008
      [] cls = "ModelNotSetDetector" -> 852
      [] cls = "ThinkingNotEnabledDetector" -> 848
      [] cls = "NoAgentsDirDetector" -> 1013
      [] cls = "NoHooksDetector" -> 1003
      [] cls = "InvalidHookKeysDetector" -> 931
      [] cls = "LargeFilesDetector" -> 971
      [] cls = "NoTestsDirDetector" -> 901
      [] cls = "NoReadmeDetector" -> 779
      [] cls = "NoInitCommandDetector" -> 826
      [] cls = "NoCommitCommandDetector" -> 743
      [] cls = "NoWorktreesDetector" -> 991
      [] cls = "NoGithubActionsDetector" -> 901
      [] cls = "MissingEnvExampleDetector" -> 795
      [] OTHER -> 0
NoPrompt == [owner |-> "", len |-> 0]
fix_prompt(cls) ==
    IF PromptLength(cls) > 0 THEN [owner |-> cls, len |-> PromptLength(cls)] ELSE NoPrompt

\* mutant: the keyword is left out and the field keeps its default, None
issue_fix_prompt_default(cls) == NoPrompt

\* HealthIssue(..., fix_prompt=self.fix_prompt, ...): the field of the issue
\* that cls.check returns
issue_fix_prompt(cls) == fix_prompt(cls)

\* return HealthIssue(rule_id=self.rule_id, severity=self.severity, ...)
OwnIssue(cls, file_path) == Found(HealthIssue(rule_id(cls), severity(cls), file_path))

(***************************************************************************)
(* Critical detectors                                                      *)
(***************************************************************************)
claude_md_paths == <<".claude/CLAUDE.md", "CLAUDE.md">>
BloatedCritical == 100
BloatedWarning == 50

\* mutant: the thresholds are compared with >=
RECURSIVE BloatedFrom_ge(_, _)
BloatedFrom_ge(fs, i) ==
    IF i > Len(claude_md_paths) THEN Absent
    ELSE LET p == claude_md_paths[i] IN
         IF ~exists(fs, p) THEN BloatedFrom_ge(fs, i + 1)
         ELSE IF ~CanRead(fs, p) THEN BloatedFrom_ge(fs, i + 1)
         ELSE IF fs.lines[p] >= BloatedCritical
              THEN Found(HealthIssue(rule_id("BloatedClaudeMdDetector"), CRITICAL, p))
         ELSE IF fs.lines[p] >= BloatedWarning
              THEN Found(HealthIssue(rule_id("BloatedClaudeMdDetector"), WARNING, p))
         ELSE Absent

RECURSIVE BloatedFrom(_, _)
BloatedFrom(fs, i) ==
    IF i > Len(claude_md_paths) THEN Absent
    ELSE LET p == claude_md_paths[i] IN
         IF ~exists(fs, p) THEN BloatedFrom(fs, i + 1)
         ELSE IF ~CanRead(fs, p) THEN BloatedFrom(fs, i + 1)
         ELSE IF fs.lines[p] > BloatedCritical
              THEN Found(HealthIssue(rule_id("BloatedClaudeMdDetector"), CRITICAL, p))
         ELSE IF fs.lines[p] > BloatedWarning
              THEN Found(HealthIssue(rule_id("BloatedClaudeMdDetector"), WARNING, p))
         ELSE Absent

BloatedClaudeMdDetector(fs) == BloatedFrom(fs, 1)

\* A .gitignore line is [lead, body]: lead says that whitespace precedes the
\* text, body is line.strip().  The string tests are tables over the bodies
\* the model writes.
HashBodies == {"# secrets", "#.trees"}
TreesBodies == {".trees", ".trees/", "#.trees"}
startswith_hash(line) == ~line.lead /\ line.body \in HashBodies
contains_trees(line) == line.body \in TreesBodies

sensitive_files == <<".env", ".claude/settings.local.json">>

gitignore_patterns(fs) ==
    IF exists(fs, ".gitignore") /\ CanRead(fs, ".gitignore")
    THEN {fs.gitignore[i].body : i \in
            {j \in 1..Len(fs.gitignore) :
                fs.gitignore[j].body # "" /\ ~startswith_hash(fs.gitignore[j])}}
    ELSE {}

RECURSIVE SecretsFrom(_, _)
SecretsFrom(fs, i) ==
    IF i > Len(sensitive_files) THEN Absent
    ELSE LET f == sensitive_files[i] IN
         IF exists(fs, f) /\ f \notin gitignore_patterns(fs)
         THEN OwnIssue("SecretsExposedDetector", f)
         ELSE SecretsFrom(fs, i + 1)

SecretsExposedDetector(fs) == SecretsFrom(fs, 1)

McpThreshold == 3

\* the contribution of one settings file to total_servers
McpCount(fs, p) ==
    IF exists(fs, p) /\ Loads(fs, p) /\ fs.json[p].kind = "object"
       /\ fs.json[p].mcpServers.kind = "dict"
    THEN fs.json[p].mcpServers.n
    ELSE 0

\* mutant: only the first settings file that exists is counted
total_servers_first(fs) ==
    IF exists(fs, settings_paths[1]) THEN McpCount(fs, settings_paths[1])
    ELSE McpCount(fs, settings_paths[2])

total_servers(fs) == McpCount(fs, settings_paths[1]) + McpCount(fs, settings_paths[2])

McpOverloadDetector(fs) ==
    IF total_servers(fs) > McpThreshold THEN OwnIssue("McpOverloadDetector", "") ELSE Absent

\* mutant: a .gitignore that cannot be read counts as missing
NoGitignoreDetector_readable(fs) ==
    IF ~CanRead(fs, ".gitignore") THEN OwnIssue("NoGitignoreDetector", "") ELSE Absent

NoGitignoreDetector(fs) ==
    IF ~exists(fs, ".gitignore") THEN OwnIssue("NoGitignoreDetector", "") ELSE Absent

(***************************************************************************)
(* Warning detectors                                                       *)
(***************************************************************************)
\* for p in paths: if p.exists(): return None
AnyExists(fs, paths) == \E i \in 1..Len(paths) : exists(fs, paths[i])

NoSkillsDirDetector(fs) ==
    IF ~exists(fs, ".claude/skills") THEN OwnIssue("NoSkillsDirDetector", "") ELSE Absent

NoCommandsDirDetector(fs) ==
    IF ~exists(fs, ".claude/commands") THEN OwnIssue("NoCommandsDirDetector", "") ELSE Absent

NoStatusMdDetector(fs) ==
    IF ~exists(fs, "status.md") THEN OwnIssue("NoStatusMdDetector", "") ELSE Absent

changelog_paths == <<"CHANGELOG.md", "changelog.md">>
NoChangelogMdDetector(fs) ==
    IF AnyExists(fs, changelog_paths) THEN Absent ELSE OwnIssue("NoChangelogMdDetector", "")

planning_paths == <<"PRD.md", "EDD.md", "plan.md", "PLAN.md", "docs/PRD.md", "docs/plan.md">>
NoPlanningDocsDetector(fs) ==
    IF AnyExists(fs, planning_paths) THEN Absent ELSE OwnIssue("NoPlanningDocsDetector", "")

architecture_paths ==
    <<"architecture.md", "ARCHITECTURE.md", "docs/architecture.md", "docs/ARCHITECTURE.md">>
NoArchitectureMdDetector(fs) ==
    IF AnyExists(fs, architecture_paths) THEN Absent
    ELSE OwnIssue("NoArchitectureMdDetector", "")

\* the first settings file, in order, that loads and has env[key], if any
EnvInProject(fs, key) ==
    \E i \in 1..Len(settings_paths) :
        /\ exists(fs, settings_paths[i])
        /\ Loads(fs, settings_paths[i])
        /\ EnvHas(fs.json[settings_paths[i]], key)

\* hm is ~/.claude as a file system of its own, holding "settings.json"
EnvInHome(hm, key) ==
    /\ exists(hm, "settings.json")
    /\ Loads(hm, "settings.json")
    /\ EnvHas(hm.json["settings.json"], key)

ModelNotSetDetector(fs, hm) ==
    IF EnvInProject(fs, "ANTHROPIC_MODEL") THEN Absent
    ELSE IF EnvInHome(hm, "ANTHROPIC_MODEL") THEN Absent
    ELSE OwnIssue("ModelNotSetDetector", "")

ThinkingNotEnabledDetector(fs) ==
    IF EnvInProject(fs, "MAX_THINKING_TOKENS") THEN Absent
    ELSE OwnIssue("ThinkingNotEnabledDetector", "")

NoAgentsDirDetector(fs) ==
    IF ~exists(fs, ".claude/agents") THEN OwnIssue("NoAgentsDirDetector", "") ELSE Absent

\* "hooks" in settings and isinstance(settings["hooks"], dict)
HooksIsDict(fs, p) ==
    /\ exists(fs, p)
    /\ Loads(fs, p)
    /\ fs.json[p].kind = "object"
    /\ fs.json[p].hooks.kind = "dict"

NoHooksDetector(fs) ==
    IF \E i \in 1..Len(settings_paths) :
          HooksIsDict(fs, settings_paths[i])
          /\ Len(fs.json[settings_paths[i]].hooks.entries) > 0
    THEN Absent
    ELSE OwnIssue("NoHooksDetector", "")

VALID_HOOK_KEYS ==
    {"type", "command", "blocking", "successMessage", "errorMessage", "filePatterns"}

\* A hooks entry is [name, kind, objs]: kind "list" is a JSON array whose
\* elements are objs; an element is [isdict, keys].
\* invalid_hooks of one settings file, in iteration order
\* mutant: only the first hook object of a list is examined
InvalidInList_head(file, name, objs, idx) ==
    IF idx > Len(objs) \/ ~objs[idx].isdict \/ objs[idx].keys \ VALID_HOOK_KEYS = {} THEN <<>>
    ELSE <<[hook |-> name, idx |-> idx - 1, file |-> file,
            invalid_keys |-> objs[idx].keys \ VALID_HOOK_KEYS]>>

RECURSIVE InvalidInList(_, _, _, _)
InvalidInList(file, name, objs, idx) ==
    IF idx > Len(objs) THEN <<>>
    ELSE LET o == objs[idx]
             invalid_keys == o.keys \ VALID_HOOK_KEYS
             here == IF o.isdict /\ invalid_keys # {}
                     THEN <<[hook |-> name, idx |-> idx - 1, file |-> file,
                             invalid_keys |-> invalid_keys]>>
                     ELSE <<>>
         IN here \o InvalidInList(file, name, objs, idx + 1)

RECURSIVE InvalidInEntries(_, _, _)
InvalidInEntries(file, entries, k) ==
    IF k > Len(entries) THEN <<>>
    ELSE (IF entries[k].kind = "list"
          THEN InvalidInList(file, entries[k].name, entries[k].objs, 1)
          ELSE <<>>)
         \o InvalidInEntries(file, entries, k + 1)

\* settings_path.name
PathName(p) == IF p = SettingsJson THEN "settings.json" ELSE "settings.local.json"

InvalidInFile(fs, p) ==
    IF HooksIsDict(fs, p)
    THEN InvalidInEntries(PathName(p), fs.json[p].hooks.entries, 1)
    ELSE <<>>

invalid_hooks(fs) ==
    InvalidInFile(fs, settings_paths[1]) \o InvalidInFile(fs, settings_paths[2])

InvalidHookKeysDetector(fs) ==
    IF invalid_hooks(fs) = <<>> THEN Absent ELSE OwnIssue("InvalidHookKeysDetector", "")

\* The message of the issue: a head line, then one line per element of
\* invalid_hooks, "  - {file}:{hook}[{idx}] has invalid keys: {keys}"; the
\* sorted keys of a line are modelled by their set.
invalid_list(fs) ==
    [i \in 1..Len(invalid_hooks(fs)) |->
        [file |-> invalid_hooks(fs)[i].file,
         hook |-> <<invalid_hooks(fs)[i].hook, invalid_hooks(fs)[i].idx>>,
         keys |-> invalid_hooks(fs)[i].invalid_keys]]

NoMessage == [head |-> "", lines |-> <<>>]

\* issue.message, modelled for InvalidHookKeysDetector only
message(cls, fs) ==
    IF cls = "InvalidHookKeysDetector" /\ invalid_hooks(fs) # <<>>
    THEN [head |-> "Hook configurations contain invalid keys:", lines |-> invalid_list(fs)]
    ELSE NoMessage

extensions == {"py", "js", "ts", "jsx", "tsx"}
exclude_dirs ==
    {"node_modules", "venv", ".venv", "venv_312", ".git", "__pycache__",
     "dist", "build", ".next", ".nuxt", "site-packages"}
LargeFileLines == 400

\* A source file is [dir, name, ext, lines, readable]; file_path.parts is the
\* parts of the absolute project path, then dir, then the file name.
parts(fs, f) == fs.root \o f.dir \o <<f.name>>
Excluded(fs, f) ==
    \E e \in exclude_dirs : \E i \in 1..Len(parts(fs, f)) : parts(fs, f)[i] = e

large_files(fs) ==
    {f \in fs.sources :
        /\ f.ext \in extensions
        /\ ~Excluded(fs, f)
        /\ f.readable
        /\ f.lines > LargeFileLines}

LargeFilesDetector(fs) ==
    IF large_files(fs) # {} THEN OwnIssue("LargeFilesDetector", "") ELSE Absent

test_dirs == <<"tests", "test", "__tests__", "spec">>
NoTestsDirDetector(fs) ==
    IF \E i \in 1..Len(test_dirs) : exists(fs, test_dirs[i]) /\ is_dir(fs, test_dirs[i])
    THEN Absent
    ELSE OwnIssue("NoTestsDirDetector", "")

readme_paths == <<"README.md", "readme.md">>
NoReadmeDetector(fs) ==
    IF AnyExists(fs, readme_paths) THEN Absent ELSE OwnIssue("NoReadmeDetector", "")

(***************************************************************************)
(* Info detectors                                                          *)
(***************************************************************************)
\* mutant: a missing commands directory is left to no-commands-dir
NoInitCommandDetector_defer(fs) ==
    IF exists(fs, ".claude/commands") /\ ~exists(fs, ".claude/commands/init.md")
    THEN OwnIssue("NoInitCommandDetector", "") ELSE Absent

NoInitCommandDetector(fs) ==
    IF ~exists(fs, ".claude/commands/init.md")
    THEN OwnIssue("NoInitCommandDetector", "") ELSE Absent

NoCommitCommandDetector(fs) ==
    IF ~exists(fs, ".claude/commands/commit.md")
    THEN OwnIssue("NoCommitCommandDetector", "") ELSE Absent

NoWorktreesDetector(fs) ==
    IF exists(fs, ".trees") THEN Absent
    ELSE IF /\ exists(fs, ".gitignore")
            /\ CanRead(fs, ".gitignore")
            /\ \E i \in 1..Len(fs.gitignore) : contains_trees(fs.gitignore[i])
         THEN Absent
    ELSE OwnIssue("NoWorktreesDetector", "")

NoGithubActionsDetector(fs) ==
    IF ~exists(fs, ".github/workflows") \/ ~is_dir(fs, ".github/workflows")
    THEN OwnIssue("NoGithubActionsDetector", "") ELSE Absent

\* mutant: .env.example is asked for whether or not there is a .env
MissingEnvExampleDetector_always(fs) ==
    IF ~exists(fs, ".env.example")
    THEN OwnIssue("MissingEnvExampleDetector", "") ELSE Absent

MissingEnvExampleDetector(fs) ==
    IF exists(fs, ".env") /\ ~exists(fs, ".env.example")
    THEN OwnIssue("MissingEnvExampleDetector", "") ELSE Absent

(***************************************************************************)
(* Exceptions raised while a detector reads its candidates, and the        *)
(* try/except blocks around the reads                                      *)
(***************************************************************************)
\* open(p) of a file without read permission or of a directory raises
\* PermissionError or IsADirectoryError, both OSError ("" is: no exception)
TextError(fs, p) == IF p \in fs.unreadable \/ p \in fs.dirs THEN "OSError" ELSE ""

\* json.load of malformed text raises JSONDecodeError; on a top-level value
\* that is not an object ("key" in 5, "hooks"["hooks"]) the membership test
\* or the subscript raises TypeError
JsonError(fs, p) ==
    IF TextError(fs, p) # "" THEN TextError(fs, p)
    ELSE IF fs.json[p].kind = "corrupt" THEN "JSONDecodeError"
    ELSE IF fs.json[p].kind = "nonobject" THEN "TypeError"
    ELSE ""

\* every try block of the detectors ends with: except Exception
Handler == "Exception"

\* does the handler catch the exception (all of the above are Exceptions)
Catches(handler, exc) == handler = "Exception" \/ handler = exc

\* the candidates a loop over paths opens: those that exist, up to the first
\* one at which the loop returns
Opened(fs, paths, Returns(_)) ==
    {paths[j] : j \in {i \in 1..Len(paths) :
                         /\ exists(fs, paths[i])
                         /\ \A k \in 1..(i - 1) : ~Returns(paths[k])}}

Never(p) == FALSE
EnvHit(fs, p, key) == exists(fs, p) /\ Loads(fs, p) /\ EnvHas(fs.json[p], key)
HooksHit(fs, p) == HooksIsDict(fs, p) /\ Len(fs.json[p].hooks.entries) > 0

\* the exceptions raised inside the try blocks of cls.check
ReadErrors(cls, fs, hm) ==
    CASE cls = "BloatedClaudeMdDetector" ->
           {TextError(fs, p) : p \in Opened(fs, claude_md_paths, LAMBDA q : CanRead(fs, q))}
      [] cls = "SecretsExposedDetector" ->
           {TextError(fs, p) : p \in Opened(fs, <<".gitignore">>, Never)}
      [] cls = "NoWorktreesDetector" ->
           IF exists(fs, ".trees") THEN {}
           ELSE {TextError(fs, p) : p \in Opened(fs, <<".gitignore">>, Never)}
      [] cls \in {"McpOverloadDetector", "InvalidHookKeysDetector"} ->
           {JsonError(fs, p) : p \in Opened(fs, settings_paths, Never)}
      [] cls = "ThinkingNotEnabledDetector" ->
           {JsonError(fs, p) : p \in Opened(fs, settings_paths,
                                            LAMBDA q : EnvHit(fs, q, "MAX_THINKING_TOKENS"))}
      [] cls = "NoHooksDetector" ->
           {JsonError(fs, p) : p \in Opened(fs, settings_paths, LAMBDA q : HooksHit(fs, q))}
      [] cls = "ModelNotSetDetector" ->
           {JsonError(fs, p) : p \in Opened(fs, settings_paths,
                                            LAMBDA q : EnvHit(fs, q, "ANTHROPIC_MODEL"))}
           \cup (IF EnvInProject(fs, "ANTHROPIC_MODEL") THEN {}
                 ELSE {JsonError(hm, p) : p \in Opened(hm, <<"settings.json">>, Never)})
      [] cls = "LargeFilesDetector" ->
           {IF f.readable THEN "" ELSE "OSError" :
              f \in {g \in fs.sources : g.ext \in extensions /\ ~Excluded(fs, g)}}
      [] OTHER -> {}

\* the paths a loop over paths calls exists() on: all of them, up to the
\* first one at which the loop returns
Probed(paths, Returns(_)) ==
    {paths[j] : j \in {i \in 1..Len(paths) : \A k \in 1..(i - 1) : ~Returns(paths[k])}}

\* the paths of the project that cls.check calls exists() (or is_dir()) on;
\* none of these calls is inside a try block
StatPaths(cls, fs) ==
    CASE cls = "BloatedClaudeMdDetector" ->
           Probed(claude_md_paths, LAMBDA q : CanRead(fs, q))
      [] cls = "SecretsExposedDetector" ->
           {".gitignore"}
           \cup Probed(sensitive_files,
                       LAMBDA q : exists(fs, q) /\ q \notin gitignore_patterns(fs))
      [] cls \in {"McpOverloadDetector", "InvalidHookKeysDetector"} ->
           Probed(settings_paths, Never)
      [] cls = "NoGitignoreDetector" -> {".gitignore"}
      [] cls = "NoSkillsDirDetector" -> {".claude/skills"}
      [] cls = "NoCommandsDirDetector" -> {".claude/commands"}
      [] cls = "NoStatusMdDetector" -> {"status.md"}
      [] cls = "NoChangelogMdDetector" ->
           Probed(changelog_paths, LAMBDA q : exists(fs, q))
      [] cls = "NoPlanningDocsDetector" ->
           Probed(planning_paths, LAMBDA q : exists(fs, q))
      [] cls = "NoArchitectureMdDetector" ->
           Probed(architecture_paths, LAMBDA q : exists(fs, q))
      [] cls = "ModelNotSetDetector" ->
           Probed(settings_paths, LAMBDA q : EnvHit(fs, q, "ANTHROPIC_MODEL"))
      [] cls = "ThinkingNotEnabledDetector" ->
           Probed(settings_paths, LAMBDA q : EnvHit(fs, q, "MAX_THINKING_TOKENS"))
      [] cls = "NoAgentsDirDetector" -> {".claude/agents"}
      [] cls = "NoHooksDetector" ->
           Probed(settings_paths, LAMBDA q : HooksHit(fs, q))
      [] cls = "NoTestsDirDetector" ->
           Probed(test_dirs, LAMBDA q : exists(fs, q) /\ is_dir(fs, q))
      [] cls = "NoReadmeDetector" ->
           Probed(readme_paths, LAMBDA q : exists(fs, q))
      [] cls = "NoInitCommandDetector" -> {".claude/commands/init.md"}
      [] cls = "NoCommitCommandDetector" -> {".claude/commands/commit.md"}
      [] cls = "NoWorktreesDetector" ->
           {".trees"} \cup (IF exists(fs, ".trees") THEN {} ELSE {".gitignore"})
      [] cls = "NoGithubActionsDetector" -> {".github/workflows"}
      [] cls = "MissingEnvExampleDetector" ->
           {".env"} \cup (IF exists(fs, ".env") THEN {".env.example"} ELSE {})
      [] OTHER -> {}

\* Path.exists() raises PermissionError on a path in a directory that may not
\* be searched (pathlib ignores ENOENT, ENOTDIR, EBADF and ELOOP only)
StatRaises(cls, fs, hm) ==
    \/ StatPaths(cls, fs) \cap fs.denied # {}
    \/ /\ cls = "ModelNotSetDetector"
       /\ ~EnvInProject(fs, "ANTHROPIC_MODEL")
       /\ "settings.json" \in hm.denied

\* an exception leaves check: exists() raised, or a read raised an exception
\* that the handler around it does not catch
Escapes(cls, fs, hm) ==
    \/ StatRaises(cls, fs, hm)
    \/ \E exc \in ReadErrors(cls, fs, hm) : exc # "" /\ ~Catches(Handler, exc)

(***************************************************************************)
(* detector.check(project_path, config): dispatch on the instance's class. *)
(* BaseDetector.check raises NotImplementedError.  No detector reads       *)
(* config.                                                                 *)
(***************************************************************************)
check(cls, fs, hm, config) ==
    IF Escapes(cls, fs, hm) THEN Raised ELSE
    CASE cls = "BloatedClaudeMdDetector" -> BloatedClaudeMdDetector(fs)
      [] cls = "SecretsExposedDetector" -> SecretsExposedDetector(fs)
      [] cls = "McpOverloadDetector" -> McpOverloadDetector(fs)
      [] cls = "NoGitignoreDetector" -> NoGitignoreDetector(fs)
      [] cls = "NoSkillsDirDetector" -> NoSkillsDirDetector(fs)
      [] cls = "NoCommandsDirDetector" -> NoCommandsDirDetector(fs)
      [] cls = "NoStatusMdDetector" -> NoStatusMdDetector(fs)
      [] cls = "NoChangelogMdDetector" -> NoChangelogMdDetector(fs)
      [] cls = "NoPlanningDocsDetector" -> NoPlanningDocsDetector(fs)
      [] cls = "NoArchitectureMdDetector" -> NoArchitectureMdDetector(fs)
      [] cls = "ModelNotSetDetector" -> ModelNotSetDetector(fs, hm)
      [] cls = "ThinkingNotEnabledDetector" -> ThinkingNotEnabledDetector(fs)
      [] cls = "NoAgentsDirDetector" -> NoAgentsDirDetector(fs)
      [] cls = "NoHooksDetector" -> NoHooksDetector(fs)
      [] cls = "InvalidHookKeysDetector" -> InvalidHookKeysDetector(fs)
      [] cls = "LargeFilesDetector" -> LargeFilesDetector(fs)
      [] cls = "NoTestsDirDetector" -> NoTestsDirDetector(fs)
      [] cls = "NoReadmeDetector" -> NoReadmeDetector(fs)
      [] cls = "NoInitCommandDetector" -> NoInitCommandDetector(fs)
      [] cls = "NoCommitCommandDetector" -> NoCommitCommandDetector(fs)
      [] cls = "NoWorktreesDetector" -> NoWorktreesDetector(fs)
      [] cls = "NoGithubActionsDetector" -> NoGithubActionsDetector(fs)
      [] cls = "MissingEnvExampleDetector" -> MissingEnvExampleDetector(fs)
      [] OTHER -> Raised

(***************************************************************************)
(* Detector registry (health_checks/__init__.py)                           *)
(***************************************************************************)
\* mutant: the instances are built once and handed out again at every call
get_all_detectors_cached(catalog, gen) ==
    [i \in 1..Len(catalog) |-> [cls |-> catalog[i], gen |-> 0, idx |-> i]]

\* An instance is [cls, gen, idx]: the idx-th object built by the gen-th
\* evaluation of [cls() for cls in _detectors]; (gen, idx) is its identity.
get_all_detectors(catalog, gen) ==
    [i \in 1..Len(catalog) |-> [cls |-> catalog[i], gen |-> gen, idx |-> i]]

\* _detectors.append(detector_class)
register(catalog, detector_class) == Append(catalog, detector_class)

(***************************************************************************)
(* HealthChecker (services/health_checker.py)                              *)
(***************************************************************************)
CriticalPenalty == 20
WarningPenalty == 10
InfoPenalty == 5
MaxScore == 100

Max(a, b) == IF a >= b THEN a ELSE b
Min(a, b) == IF a <= b THEN a ELSE b

\* mutant: the WARNING branch subtracts the INFO penalty
Penalty_warning_as_info(sev) ==
    IF sev = CRITICAL THEN CriticalPenalty
    ELSE IF sev = WARNING THEN InfoPenalty
    ELSE IF sev = INFO THEN InfoPenalty
    ELSE 0

\* mutant: the INFO branch adds its points instead of subtracting them
Penalty_info_added(sev) ==
    IF sev = CRITICAL THEN CriticalPenalty
    ELSE IF sev = WARNING THEN WarningPenalty
    ELSE IF sev = INFO THEN 0 - InfoPenalty
    ELSE 0

\* the if/elif chain of the scoring loop
Penalty(sev) ==
    IF sev = CRITICAL THEN CriticalPenalty
    ELSE IF sev = WARNING THEN WarningPenalty
    ELSE IF sev = INFO THEN InfoPenalty
    ELSE 0

\* mutant: the loop is left after the first CRITICAL issue
RECURSIVE ScoreLoop_break(_, _, _)
ScoreLoop_break(issues, i, score) ==
    IF i > Len(issues) THEN score
    ELSE IF issues[i].severity = CRITICAL THEN score - Penalty(issues[i].severity)
    ELSE ScoreLoop_break(issues, i + 1, score - Penalty(issues[i].severity))

\* for issue in issues: score -= ...
RECURSIVE ScoreLoop(_, _, _)
ScoreLoop(issues, i, score) ==
    IF i > Len(issues) THEN score
    ELSE ScoreLoop(issues, i + 1, score - Penalty(issues[i].severity))

\* mutant: the score is an attribute of the checker that is never reset
_calculate_score_carry(issues, total_checks) ==
    Max(0, Min(MaxScore, ScoreLoop(issues, 1, IF ret_score < 0 THEN MaxScore ELSE ret_score)))

\* mutant: the result is returned without max(0, min(100, score))
_calculate_score_unclamped(issues, total_checks) == ScoreLoop(issues, 1, MaxScore)

_calculate_score(issues, total_checks) ==
    Max(0, Min(MaxScore, ScoreLoop(issues, 1, MaxScore)))

\* HealthReport with __post_init__ applied
HealthReport(project_path, score, issues, detectors_run) ==
    [project_path |-> project_path,
     score |-> score,
     issues |-> issues,
     detectors_run |-> detectors_run,
     has_critical |-> \E i \in 1..Len(issues) : issues[i].severity = CRITICAL,
     has_warnings |-> \E i \in 1..Len(issues) : issues[i].severity = WARNING]

\* mutant: a flag passed as True is kept
__post_init___keep(self) ==
    [self EXCEPT
        !.has_critical = @ \/ \E i \in 1..Len(self.issues) : self.issues[i].severity = CRITICAL,
        !.has_warnings = @ \/ \E i \in 1..Len(self.issues) : self.issues[i].severity = WARNING]

\* HealthReport.__post_init__
__post_init__(self) ==
    [self EXCEPT
        !.has_critical = \E i \in 1..Len(self.issues) : self.issues[i].severity = CRITICAL,
        !.has_warnings = \E i \in 1..Len(self.issues) : self.issues[i].severity = WARNING]

\* HealthReport(...) with all six fields given: the generated __init__ assigns
\* them and then calls __post_init__
HealthReportInit(project_path, score, issues, detectors_run, has_critical, has_warnings) ==
    __post_init__([project_path |-> project_path,
                   score |-> score,
                   issues |-> issues,
                   detectors_run |-> detectors_run,
                   has_critical |-> has_critical,
                   has_warnings |-> has_warnings])

NoReport ==
    [project_path |-> <<>>, score |-> -1, issues |-> <<>>, detectors_run |-> 0,
     has_critical |-> FALSE, has_warnings |-> FALSE]

\* what a caller compares of two reports: the score, detectors_run and the
\* rule_id and severity of each issue
Outcome(r) ==
    [score |-> r.score, detectors_run |-> r.detectors_run,
     issues |-> [n \in 1..Len(r.issues) |->
                    <<r.issues[n].rule_id, r.issues[n].severity>>]]

\* HealthChecker.get_score_color
get_score_color(score) ==
    IF score >= 90 THEN "green"
    ELSE IF score >= 70 THEN "yellow"
    ELSE IF score >= 50 THEN "orange"
    ELSE "red"

\* mutant: the comparisons are strict
get_score_label_strict(score) ==
    IF score > 90 THEN "Excellent"
    ELSE IF score > 70 THEN "Good"
    ELSE IF score > 50 THEN "Fair"
    ELSE "Needs Attention"

\* HealthChecker.get_score_label
get_score_label(score) ==
    IF score >= 90 THEN "Excellent"
    ELSE IF score >= 70 THEN "Good"
    ELSE IF score >= 50 THEN "Fair"
    ELSE "Needs Attention"

(***************************************************************************)
(* StatusUpdater (services/status_updater.py)                              *)
(***************************************************************************)
\* mutant: the status log uses the cut points of get_score_label
status_label_same(score) ==
    IF score >= 90 THEN "Excellent"
    ELSE IF score >= 70 THEN "Good"
    ELSE IF score >= 50 THEN "Fair"
    ELSE "Needs Attention"

\* the label that append_scan_result determines
status_label(score) ==
    IF score >= 80 THEN "Excellent"
    ELSE IF score >= 60 THEN "Good"
    ELSE IF score >= 40 THEN "Fair"
    ELSE "Needs Attention"

\* "- Health scan: {score}/100 ({label}) - {issues_count} issues found"
ScanEntry(score, issues_count) ==
    [score |-> score, label |-> status_label(score), issues_count |-> issues_count]
NoEntry == [score |-> -1, label |-> "", issues_count |-> 0]

\* _ensure_status_file: status.md is created when it is missing
_ensure_status_file(fs) == [fs EXCEPT !.exists = @ \cup {"status.md"}]

\* mutant: the detector list is read from the registry at every call
DetectorsOf_registry(checker) == get_all_detectors(_detectors, nextId)

\* HealthChecker(): self.detectors = get_all_detectors()
HealthCheckerInit(catalog, gen) ==
    [is_none |-> FALSE, detectors |-> get_all_detectors(catalog, gen)]

\* _health_checker = None
None == [is_none |-> TRUE, detectors |-> <<>>]

\* for detector in self.detectors: the list a check_project call iterates
DetectorsOf(checker) == checker.detectors

\* if config is None: config = {}
NormConfig(config) == IF config = "None" THEN "empty" ELSE config

\* mutant: no try/except, the first exception ends the loop
RECURSIVE RunDetectors_abort(_, _, _, _, _, _)
RunDetectors_abort(detectors, i, fs, hm, config, acc) ==
    IF i > Len(detectors) THEN acc
    ELSE LET r == check(detectors[i].cls, fs, hm, config)
             step == [issues |-> IF r.kind = "issue"
                                 THEN Append(acc.issues, r.issue)
                                 ELSE acc.issues,
                      detectors_run |-> acc.detectors_run + 1,
                      calls |-> Append(acc.calls,
                                       [detector |-> detectors[i], result |-> r])]
         IN IF r.kind = "raise" THEN step
            ELSE RunDetectors_abort(detectors, i + 1, fs, hm, config, step)

\* mutant: detectors_run is incremented after check returned, inside the try
RECURSIVE RunDetectors_count_in_try(_, _, _, _, _, _)
RunDetectors_count_in_try(detectors, i, fs, hm, config, acc) ==
    IF i > Len(detectors) THEN acc
    ELSE LET r == check(detectors[i].cls, fs, hm, config)
             step == [issues |-> IF r.kind = "issue"
                                 THEN Append(acc.issues, r.issue)
                                 ELSE acc.issues,
                      detectors_run |-> IF r.kind = "raise"
                                        THEN acc.detectors_run
                                        ELSE acc.detectors_run + 1,
                      calls |-> Append(acc.calls,
                                       [detector |-> detectors[i], result |-> r])]
         IN RunDetectors_count_in_try(detectors, i + 1, fs, hm, config, step)

\* mutant: issues.insert(0, issue) instead of issues.append(issue)
RECURSIVE RunDetectors_prepend(_, _, _, _, _, _)
RunDetectors_prepend(detectors, i, fs, hm, config, acc) ==
    IF i > Len(detectors) THEN acc
    ELSE LET r == check(detectors[i].cls, fs, hm, config)
             step == [issues |-> IF r.kind = "issue"
                                 THEN <<r.issue>> \o acc.issues
                                 ELSE acc.issues,
                      detectors_run |-> acc.detectors_run + 1,
                      calls |-> Append(acc.calls,
                                       [detector |-> detectors[i], result |-> r])]
         IN RunDetectors_prepend(detectors, i + 1, fs, hm, config, step)

\* mutant: without a parsed configuration no detector is asked
RECURSIVE RunDetectors_need_config(_, _, _, _, _, _)
RunDetectors_need_config(detectors, i, fs, hm, config, acc) ==
    IF i > Len(detectors) THEN acc
    ELSE LET r == IF config = "empty" THEN Absent
                  ELSE check(detectors[i].cls, fs, hm, config)
             step == [issues |-> IF r.kind = "issue"
                                 THEN Append(acc.issues, r.issue)
                                 ELSE acc.issues,
                      detectors_run |-> acc.detectors_run + 1,
                      calls |-> Append(acc.calls,
                                       [detector |-> detectors[i], result |-> r])]
         IN RunDetectors_need_config(detectors, i + 1, fs, hm, config, step)

\* mutant: an issue is dropped when its rule_id is in the list already
RECURSIVE RunDetectors_once_per_rule(_, _, _, _, _, _)
RunDetectors_once_per_rule(detectors, i, fs, hm, config, acc) ==
    IF i > Len(detectors) THEN acc
    ELSE LET r == check(detectors[i].cls, fs, hm, config)
             dup == \E n \in 1..Len(acc.issues) : acc.issues[n].rule_id = r.issue.rule_id
             step == [issues |-> IF r.kind = "issue" /\ ~dup
                                 THEN Append(acc.issues, r.issue)
                                 ELSE acc.issues,
                      detectors_run |-> acc.detectors_run + 1,
                      calls |-> Append(acc.calls,
                                       [detector |-> detectors[i], result |-> r])]
         IN RunDetectors_once_per_rule(detectors, i + 1, fs, hm, config, step)

\* The loop of check_project from detector i on: acc is
\* [issues, detectors_run, calls]; calls logs each invocation and its outcome.
RECURSIVE RunDetectors(_, _, _, _, _, _)
RunDetectors(detectors, i, fs, hm, config, acc) ==
    IF i > Len(detectors) THEN acc
    ELSE LET r == check(detectors[i].cls, fs, hm, config)
             step == [issues |-> IF r.kind = "issue"
                                 THEN Append(acc.issues, r.issue)
                                 ELSE acc.issues,
                      detectors_run |-> acc.detectors_run + 1,
                      calls |-> Append(acc.calls,
                                       [detector |-> detectors[i], result |-> r])]
         IN RunDetectors(detectors, i + 1, fs, hm, config, step)

\* mutant: the issue list is an attribute that is never emptied
NoRun_kept == [issues |-> report.issues, detectors_run |-> 0, calls |-> <<>>]

\* issues = []; detectors_run = 0
NoRun == [issues |-> <<>>, detectors_run |-> 0, calls |-> <<>>]

(***************************************************************************)
(* Project states and the edits the user makes between scans               *)
(***************************************************************************)
EmptyJson == JsonObject(Missing, Missing, Missing)
Line(body) == [lead |-> FALSE, body |-> body]

\* a freshly created project directory (tests/conftest.py temp_project_dir)
EmptyProject ==
    [root |-> <<"/", "home", "dev", "proj">>,
     exists |-> {}, dirs |-> {}, unreadable |-> {}, denied |-> {},
     lines |-> [p \in {".claude/CLAUDE.md", "CLAUDE.md"} |-> 0],
     gitignore |-> <<>>,
     json |-> [p \in {SettingsJson, SettingsLocalJson} |-> EmptyJson],
     sources |-> {}]

GoodHook == [name |-> "PostToolUse", kind |-> "list",
             objs |-> <<[isdict |-> TRUE, keys |-> {"type", "command"}]>>]
GoodSettings ==
    JsonObject(EnvDict({"ANTHROPIC_MODEL", "MAX_THINKING_TOKENS"}), Missing,
               HooksDict(<<GoodHook>>))

\* a project that follows every recommendation
FullProject ==
    [EmptyProject EXCEPT
        !.exists = {".gitignore", "CLAUDE.md", SettingsJson, ".claude/skills",
                    ".claude/commands", ".claude/commands/init.md",
                    ".claude/commands/commit.md", ".claude/agents", "README.md",
                    "tests", "status.md", "CHANGELOG.md", "PRD.md",
                    "architecture.md", ".trees", ".github/workflows"},
        !.dirs = {".claude/skills", ".claude/commands", ".claude/agents", "tests",
                  ".trees", ".github/workflows"},
        !.lines = [@ EXCEPT !["CLAUDE.md"] = 30],
        !.gitignore = <<Line(".env")>>,
        !.json = [@ EXCEPT ![SettingsJson] = GoodSettings],
        !.sources = {[dir |-> <<"src">>, name |-> "main.py", ext |-> "py",
                      lines |-> 120, readable |-> TRUE]}]

Remove(fs, p) ==
    [fs EXCEPT !.exists = @ \ {p}, !.dirs = @ \ {p}, !.unreadable = @ \ {p},
               !.denied = @ \ {p}]
WriteText(fs, p, n) ==
    [fs EXCEPT !.exists = @ \cup {p}, !.unreadable = @ \ {p}, !.lines = [@ EXCEPT ![p] = n]]
WriteGitignore(fs, content) ==
    [fs EXCEPT !.exists = @ \cup {".gitignore"}, !.gitignore = content]

\* the edits of the scanned project that the model follows
Edits(fs) ==
    {Remove(fs, ".gitignore"), WriteGitignore(fs, <<Line(".env")>>),
     WriteText(fs, "CLAUDE.md", 30), WriteText(fs, "CLAUDE.md", 101)}

NoHome ==
    [exists |-> {}, dirs |-> {}, unreadable |-> {}, denied |-> {},
     json |-> [p \in {"settings.json"} |-> EmptyJson]]
HomeWithModel ==
    [NoHome EXCEPT !.exists = {"settings.json"},
                   !.json = [@ EXCEPT !["settings.json"] =
                                JsonObject(EnvDict({"ANTHROPIC_MODEL"}), Missing, Missing)]]
Homes == {NoHome, HomeWithModel}

Configs == {"None", "empty", "parsed"}

(***************************************************************************)
(* Project states given to single detectors                                *)
(***************************************************************************)
MaxServers == 4     \* entries of the mcpServers object of one settings file

WriteJson(fs, p, js) ==
    [fs EXCEPT !.exists = @ \cup {p}, !.unreadable = @ \ {p}, !.json = [@ EXCEPT ![p] = js]]
\* chmod 000 p
MakeUnreadable(fs, p) ==
    [fs EXCEPT !.exists = @ \cup {p}, !.unreadable = @ \cup {p}]

\* hooks entries: lists of hook objects, as the fix prompt of the detector shows
\* them, and entries of other shapes
BadHookA == [name |-> "PreToolUse", kind |-> "list",
             objs |-> <<[isdict |-> TRUE, keys |-> {"type", "command", "enabled"}]>>]
BadHookB == [name |-> "Stop", kind |-> "list",
             objs |-> <<[isdict |-> TRUE, keys |-> {"type", "command"}],
                        [isdict |-> TRUE, keys |-> {"command", "outputMode", "matcher"}]>>]
\* "SessionStart": {"command": ..., "enabled": ...}: the entry is an object itself
ObjectHook == [name |-> "SessionStart", kind |-> "object",
               objs |-> <<[isdict |-> TRUE, keys |-> {"command", "enabled"}]>>]
\* "Notification": ["echo"]: a list whose element is not an object
StringsHook == [name |-> "Notification", kind |-> "list",
                objs |-> <<[isdict |-> FALSE, keys |-> {}]>>]

EnvChoices ==
    {Missing, NotDict, EnvDict({}), EnvDict({"ANTHROPIC_MODEL"}),
     EnvDict({"MAX_THINKING_TOKENS"})}
McpChoices == {NotDict} \cup {McpDict(n) : n \in 0..MaxServers}
HooksChoices ==
    {NotDict, HooksDict(<<>>), HooksDict(<<GoodHook>>), HooksDict(<<BadHookA>>),
     HooksDict(<<BadHookB, BadHookA>>), HooksDict(<<ObjectHook>>),
     HooksDict(<<GoodHook, StringsHook>>)}

\* the states of one settings file: those that matter to the env readers,
\* and all of them
EnvFileStates ==
    {[state |-> st, json |-> EmptyJson] : st \in {"missing", "unreadable"}}
    \cup {[state |-> "file", json |-> js] : js \in
            {JsonCorrupt, JsonNonObject}
            \cup {JsonObject(env, Missing, Missing) : env \in EnvChoices}}
FileStates ==
    EnvFileStates
    \cup {[state |-> "file", json |-> js] : js \in
            {JsonObject(Missing, mcp, Missing) : mcp \in McpChoices}
            \cup {JsonObject(Missing, Missing, hooks) : hooks \in HooksChoices}}

PutFile(fs, p, st) ==
    IF st.state = "missing" THEN Remove(fs, p)
    ELSE IF st.state = "unreadable" THEN MakeUnreadable(fs, p)
    ELSE WriteJson(fs, p, st.json)

SettingsProjects ==
    {PutFile(PutFile(FullProject, SettingsJson, a), SettingsLocalJson, b) :
        a \in FileStates, b \in FileStates}

EnvProjects ==
    {PutFile(PutFile(FullProject, SettingsJson, a), SettingsLocalJson, b) :
        a \in EnvFileStates, b \in EnvFileStates}

LineCounts == {0, 49, 50, 51, 52, 99, 100, 101, 102}

\* the states of one CLAUDE.md candidate
PutClaudeMd(fs, p, st) ==
    IF st = -2 THEN Remove(fs, p)
    ELSE IF st = -1 THEN MakeUnreadable(fs, p)
    ELSE WriteText(fs, p, st)

ClaudeMdProjects ==
    {PutClaudeMd(PutClaudeMd(FullProject, claude_md_paths[1], a), claude_md_paths[2], b) :
        a \in LineCounts \cup {-2, -1}, b \in LineCounts \cup {-2, -1}}

GitignoreProjects ==
    UNION {{Remove(fs, ".gitignore"), MakeUnreadable(fs, ".gitignore"),
            WriteGitignore(fs, <<>>), WriteGitignore(fs, <<Line(".env")>>),
            WriteGitignore(fs, <<Line("# secrets"), Line(".trees/")>>)} :
           fs \in {EmptyProject, FullProject, Remove(FullProject, ".trees")}}

\* .env and .claude/settings.local.json, there or not, with the .gitignore
\* files that do and do not name them
GitignoreTexts ==
    {<<>>, <<Line(".env")>>, <<[lead |-> TRUE, body |-> ".env"]>>,
     <<Line("# secrets"), Line(SettingsLocalJson)>>,
     <<Line(".env"), Line(""), Line(SettingsLocalJson)>>}
SecretsProjects ==
    UNION {{Remove(fs, ".gitignore"),
            MakeUnreadable(WriteGitignore(fs, <<Line(".env"), Line(SettingsLocalJson)>>),
                           ".gitignore")}
           \cup {WriteGitignore(fs, text) : text \in GitignoreTexts} :
           fs \in {[FullProject EXCEPT !.exists = (@ \ {".env", SettingsLocalJson}) \cup there] :
                      there \in SUBSET {".env", SettingsLocalJson}}}

\* one source file in the project: at and above the threshold, readable or
\* not, in the project root, in src/ and in node_modules/lib/, with an
\* extension that is looked at and one that is not; the project itself lies
\* in /home/dev or in /home/dev/build
SourceProjects ==
    {[FullProject EXCEPT !.root = root,
                         !.sources = {[dir |-> dir, name |-> "big", ext |-> ext,
                                       lines |-> n, readable |-> r]}] :
        root \in {<<"/", "home", "dev", "proj">>, <<"/", "home", "dev", "build", "proj">>},
        dir \in {<<>>, <<"src">>, <<"node_modules", "lib">>},
        ext \in {"py", "tsx", "md"},
        n \in {LargeFileLines, LargeFileLines + 1}, r \in BOOLEAN}

\* chmod 000 .claude: nothing below .claude can be looked at
ClaudeDirPaths ==
    {".claude/CLAUDE.md", SettingsJson, SettingsLocalJson, ".claude/skills",
     ".claude/commands", ".claude/commands/init.md", ".claude/commands/commit.md",
     ".claude/agents"}
DenyClaudeDir(fs) ==
    [fs EXCEPT !.exists = @ \ ClaudeDirPaths, !.dirs = @ \ ClaudeDirPaths,
               !.denied = ClaudeDirPaths]
DeniedProjects == {DenyClaudeDir(FullProject), DenyClaudeDir(EmptyProject)}

\* ~/.claude/settings.json that does not parse
HomeCorrupt ==
    [NoHome EXCEPT !.exists = {"settings.json"},
                   !.json = [@ EXCEPT !["settings.json"] = JsonCorrupt]]

(***************************************************************************)
(* Bounds                                                                  *)
(***************************************************************************)
MaxRegister == 2    \* register() calls after the package is loaded
MaxCalls == 3       \* direct get_all_detectors() calls
MaxIssues == 7      \* length of the issue list given to _calculate_score
MaxTotal == 1       \* largest total_checks given to _calculate_score
MaxGiven == 2       \* length of the issue list given to HealthReport directly
MaxBeyond == 5      \* how far below 0 and above 100 the labelled scores go

\* classes registered after load: one whose check raises (it does not
\* override BaseDetector.check), and one that is registered already
RegisterClasses == {"BaseDetector", "NoGitignoreDetector"}
AllClasses == {DetectorClasses[i] : i \in 1..Len(DetectorClasses)} \cup RegisterClasses

(***************************************************************************)
(* Operations                                                              *)
(***************************************************************************)
registryVars == <<_detectors, nextId, got>>
scoreVars == <<arg_issues, arg_total, ret_score, scoreOp>>
scanVars == <<report, calls, lastScan>>
envVars == <<project, home>>
directVars == <<det, made, shown>>

\* lastScan: scanned says a scan was made; registered is len(_detectors) when
\* it was made; dirty says the project or the home changed since; repeat says
\* the scan before it was of the same, unmodified project.
NoScan == [scanned |-> FALSE, registered |-> 0, dirty |-> FALSE, repeat |-> FALSE]

\* det: no detector was called directly yet
NoCheck == [cls |-> "", result |-> Absent, message |-> NoMessage, fix_prompt |-> NoPrompt]
\* made: no HealthReport was constructed directly yet; given is the issue list
\* handed to the constructor and passed the two flags handed to it
NoneMade == [built |-> FALSE, report |-> NoReport, given |-> <<>>,
             passed |-> <<FALSE, FALSE>>, changed |-> FALSE]
\* shown: no score was labelled yet
NoneShown == [score |-> -1, label |-> "", color |-> "", entry |-> NoEntry]
\* memo: no scan was made yet; others says that a scan of another project
\* state was made after the noted one
NoMemo == [set |-> FALSE, project |-> EmptyProject, home |-> NoHome,
           outcome |-> Outcome(NoReport), others |-> FALSE,
           config |-> "", latest |-> ""]

Loaded ==
    /\ _detectors = DetectorClasses
    /\ _health_checker = None
    /\ nextId = 1
    /\ got = <<>>
    /\ report = NoReport
    /\ calls = <<>>
    /\ lastScan = NoScan
    /\ arg_issues = <<>>
    /\ arg_total = 0
    /\ ret_score = -1
    /\ scoreOp = "none"
    /\ det = NoCheck
    /\ made = NoneMade
    /\ shown = NoneShown
    /\ memo = NoMemo

Init ==
    /\ Loaded
    /\ project \in {EmptyProject, FullProject}
    /\ home = NoHome

\* @register on a class defined after the package was loaded
Register(cls) ==
    /\ Len(_detectors) < Len(DetectorClasses) + MaxRegister
    /\ _detectors' = register(_detectors, cls)
    /\ UNCHANGED <<_health_checker, nextId, got, envVars, scanVars, scoreVars,
                   directVars, memo>>

\* a direct call of get_all_detectors(), as the tests make
GetAllDetectors ==
    /\ nextId <= MaxCalls
    /\ got' = get_all_detectors(_detectors, nextId)
    /\ nextId' = nextId + 1
    /\ UNCHANGED <<_detectors, _health_checker, envVars, scanVars, scoreVars,
                   directVars, memo>>

\* get_health_checker() when the singleton does not exist yet (when it
\* exists the call changes nothing)
GetHealthChecker ==
    /\ _health_checker.is_none
    /\ _health_checker' = HealthCheckerInit(_detectors, nextId)
    /\ nextId' = nextId + 1
    /\ UNCHANGED <<_detectors, got, envVars, scanVars, scoreVars, directVars, memo>>

\* get_health_checker().check_project(project_path, config)
CheckProject(config) ==
    /\ ~_health_checker.is_none
    /\ \E run \in {RunDetectors(DetectorsOf(_health_checker), 1, project, home,
                                NormConfig(config), NoRun)} :
         \E score \in {_calculate_score(run.issues, run.detectors_run)} :
            /\ report' = HealthReport(project.root, score, run.issues, run.detectors_run)
            /\ calls' = run.calls
            /\ arg_issues' = run.issues
            /\ arg_total' = run.detectors_run
            /\ ret_score' = score
            /\ scoreOp' = "call"
    /\ lastScan' = [scanned |-> TRUE, registered |-> Len(_detectors),
                    dirty |-> FALSE,
                    repeat |-> lastScan.scanned /\ ~lastScan.dirty]
    /\ UNCHANGED <<_detectors, _health_checker, nextId, got, envVars, directVars>>

\* the user edits the project between scans
ModifyProject ==
    /\ \E fs \in Edits(project) \ {project} : project' = fs
    /\ lastScan' = [lastScan EXCEPT !.dirty = TRUE]
    /\ UNCHANGED <<_detectors, _health_checker, nextId, got, home,
                   report, calls, scoreVars, directVars, memo>>

\* the user's own ~/.claude/settings.json changes
ModifyHome ==
    /\ \E hm \in Homes \ {home} : home' = hm
    /\ lastScan' = [lastScan EXCEPT !.dirty = TRUE]
    /\ UNCHANGED <<_detectors, _health_checker, nextId, got, project,
                   report, calls, scoreVars, directVars, memo>>

Next ==
    \/ \E cls \in RegisterClasses : Register(cls)
    \/ GetHealthChecker
    \/ \E config \in Configs : CheckProject(config) /\ UNCHANGED memo
    \/ ModifyProject
    \/ ModifyHome

Spec == Init /\ [][Next]_vars

(***************************************************************************)
(* The registry alone: registrations and get_all_detectors() calls         *)
(***************************************************************************)
InitRegistry ==
    /\ Loaded
    /\ project = EmptyProject
    /\ home = NoHome

NextRegistry ==
    \/ \E cls \in RegisterClasses : Register(cls)
    \/ GetAllDetectors
    \/ GetHealthChecker

SpecRegistry == InitRegistry /\ [][NextRegistry]_vars

(***************************************************************************)
(* _calculate_score alone, on every issue list up to MaxIssues             *)
(***************************************************************************)
TestIssue(sev) == HealthIssue("test-rule", sev, "")
TestIssues == {TestIssue(sev) : sev \in Severity}
IssueLists == UNION {[1..n -> TestIssues] : n \in 0..MaxIssues}

Swap(seq, i, j) == [seq EXCEPT ![i] = seq[j], ![j] = seq[i]]
InsertAt(seq, k, x) == SubSeq(seq, 1, k - 1) \o <<x>> \o SubSeq(seq, k, Len(seq))

InitScore ==
    /\ Loaded
    /\ project = EmptyProject
    /\ home = NoHome

\* self._calculate_score(issues, total_checks)
CalculateScore ==
    /\ scoreOp = "none"
    /\ \E issues \in IssueLists : \E total_checks \in 0..MaxTotal :
          /\ arg_issues' = issues
          /\ arg_total' = total_checks
          /\ ret_score' = _calculate_score(issues, total_checks)
    /\ scoreOp' = "call"
    /\ UNCHANGED <<registryVars, _health_checker, envVars, scanVars, directVars, memo>>

\* the same call on the list with two unequal issues exchanged
Reorder ==
    /\ scoreOp # "none"
    /\ \E i \in 1..Len(arg_issues) : \E j \in (i + 1)..Len(arg_issues) :
          /\ arg_issues[i] # arg_issues[j]
          /\ arg_issues' = Swap(arg_issues, i, j)
          /\ ret_score' = _calculate_score(arg_issues', arg_total)
    /\ scoreOp' = "reorder"
    /\ UNCHANGED <<arg_total, registryVars, _health_checker, envVars, scanVars,
                   directVars, memo>>

\* the same call on the list with one more issue, at any place
AddIssue ==
    /\ scoreOp # "none"
    /\ Len(arg_issues) < MaxIssues
    /\ \E k \in 1..(Len(arg_issues) + 1) : \E x \in TestIssues :
          /\ arg_issues' = InsertAt(arg_issues, k, x)
          /\ ret_score' = _calculate_score(arg_issues', arg_total)
    /\ scoreOp' = "add"
    /\ UNCHANGED <<arg_total, registryVars, _health_checker, envVars, scanVars,
                   directVars, memo>>

NextScore ==
    \/ CalculateScore
    \/ Reorder
    \/ AddIssue

SpecScore == InitScore /\ [][NextScore]_vars

(***************************************************************************)
(* HealthReport alone: construction with explicit flags, and changes of    *)
(* the issue list of a constructed report                                  *)
(***************************************************************************)
GivenLists == UNION {[1..n -> TestIssues] : n \in 0..MaxGiven}

InitReport == InitScore

\* HealthReport(project_path, score, issues, detectors_run, has_critical, has_warnings)
MakeReport ==
    /\ \E issues \in GivenLists : \E has_critical \in BOOLEAN : \E has_warnings \in BOOLEAN :
          made' = [built |-> TRUE,
                   report |-> HealthReportInit(EmptyProject.root, MaxScore, issues,
                                               Len(issues), has_critical, has_warnings),
                   given |-> issues,
                   passed |-> <<has_critical, has_warnings>>,
                   changed |-> FALSE]
    /\ UNCHANGED <<registryVars, _health_checker, envVars, scanVars, scoreVars,
                   det, shown, memo>>

\* report.issues.append(issue) on a constructed report
AppendToReport ==
    /\ made.built
    /\ Len(made.report.issues) <= MaxGiven
    /\ \E issue \in TestIssues :
          made' = [made EXCEPT !.report.issues = Append(@, issue), !.changed = TRUE]
    /\ UNCHANGED <<registryVars, _health_checker, envVars, scanVars, scoreVars,
                   det, shown, memo>>

NextReport ==
    \/ MakeReport
    \/ AppendToReport

SpecReport == InitReport /\ [][NextReport]_vars

(***************************************************************************)
(* get_score_label and get_score_color alone, on every score of the range  *)
(***************************************************************************)
Scores == (0 - MaxBeyond)..(MaxScore + MaxBeyond)

InitLabels == InitScore

\* checker.get_score_color(score); checker.get_score_label(score)
ShowScore ==
    /\ \E score \in Scores :
          shown' = [score |-> score,
                    label |-> get_score_label(score),
                    color |-> get_score_color(score),
                    entry |-> shown.entry]
    /\ UNCHANGED <<registryVars, _health_checker, envVars, scanVars, scoreVars,
                   det, made, memo>>

IssueCounts == {3}

\* StatusUpdater().append_scan_result(project_path, score, issues_count):
\* status.md is created if missing, and the health-scan line of today's
\* section becomes the new entry (the section is appended, or its lines are
\* replaced); when status.md cannot be read nothing is written.
AppendScanResult ==
    /\ \E score \in Scores : \E issues_count \in IssueCounts :
          shown' = [shown EXCEPT !.entry =
                       IF "status.md" \in project.unreadable THEN @
                       ELSE ScanEntry(score, issues_count)]
    /\ project' = _ensure_status_file(project)
    /\ UNCHANGED <<registryVars, _health_checker, home, scanVars, scoreVars,
                   det, made, memo>>

NextLabels == ShowScore \/ AppendScanResult

SpecLabels == InitLabels /\ [][NextLabels]_vars

(***************************************************************************)
(* The detectors alone: one check call on a project state                  *)
(***************************************************************************)
InitDetectors ==
    /\ _detectors = DetectorClasses
    /\ _health_checker = None
    /\ nextId = 1
    /\ got = <<>>
    /\ report = NoReport
    /\ calls = <<>>
    /\ lastScan = NoScan
    /\ arg_issues = <<>>
    /\ arg_total = 0
    /\ ret_score = -1
    /\ scoreOp = "none"
    /\ det = NoCheck
    /\ made = NoneMade
    /\ shown = NoneShown
    /\ memo = NoMemo
    /\ \/ /\ project \in SettingsProjects \cup ClaudeMdProjects \cup GitignoreProjects
                           \cup SecretsProjects \cup SourceProjects \cup DeniedProjects
          /\ home = NoHome
       \/ /\ project \in EnvProjects
          /\ home \in {HomeWithModel, HomeCorrupt}

\* cls().check(project_path, config)
DetectorCheck(cls) ==
    /\ \E config \in Configs : \E result \in {check(cls, project, home, config)} :
          det' = [cls |-> cls,
                  result |-> result,
                  message |-> IF result.kind = "issue" THEN message(cls, project)
                              ELSE NoMessage,
                  fix_prompt |-> IF result.kind = "issue" THEN issue_fix_prompt(cls)
                                 ELSE NoPrompt]
    /\ UNCHANGED <<registryVars, _health_checker, envVars, scanVars, scoreVars,
                   made, shown, memo>>

NextDetectors == \E cls \in AllClasses : DetectorCheck(cls)

SpecDetectors == InitDetectors /\ [][NextDetectors]_vars

(***************************************************************************)
(* Scans of changing project states, with an observer who notes the first  *)
(* scan and compares later scans of the same project state with it         *)
(***************************************************************************)
Remember(config) ==
    memo' = IF ~memo.set
            THEN [set |-> TRUE, project |-> project, home |-> home,
                  outcome |-> Outcome(report'), others |-> FALSE,
                  config |-> config, latest |-> config]
            ELSE [memo EXCEPT !.others = @ \/ project # memo.project \/ home # memo.home,
                              !.latest = config]

InitScans == Init

NextScans ==
    \/ GetHealthChecker
    \/ \E config \in Configs : CheckProject(config) /\ Remember(config)
    \/ ModifyProject
    \/ ModifyHome

SpecScans == InitScans /\ [][NextScans]_vars

(***************************************************************************)
(* A registry fixed before the checker is built: one that holds some of    *)
(* the detectors only, as the scenarios describe it (_detectors is a plain *)
(* module-level list, and a scan runs what it holds), or the loaded one.   *)
(***************************************************************************)
\* the detectors that the clean-project scenario covers, in registry order
CoveredClasses ==
    {"NoGitignoreDetector", "SecretsExposedDetector", "BloatedClaudeMdDetector",
     "McpOverloadDetector", "ModelNotSetDetector", "ThinkingNotEnabledDetector",
     "NoHooksDetector", "InvalidHookKeysDetector", "NoSkillsDirDetector",
     "NoCommandsDirDetector", "NoReadmeDetector", "NoTestsDirDetector",
     "MissingEnvExampleDetector"}
CoveredRegistry == SelectSeq(DetectorClasses, LAMBDA cls : cls \in CoveredClasses)

ReducedRegistries == {<<"NoGitignoreDetector">>, CoveredRegistry}

\* the project of the clean-project scenario: what it lists and nothing else
CleanProject ==
    [EmptyProject EXCEPT
        !.exists = {".gitignore", "CLAUDE.md", SettingsJson, ".claude/skills",
                    ".claude/commands", "README.md", "tests"},
        !.dirs = {".claude/skills", ".claude/commands", "tests"},
        !.lines = [@ EXCEPT !["CLAUDE.md"] = 30],
        !.gitignore = <<Line(".env")>>,
        !.json = [@ EXCEPT ![SettingsJson] = GoodSettings]]
\* the same with things that none of the covered detectors looks at
CleanProjects ==
    {[CleanProject EXCEPT !.exists = @ \cup more, !.dirs = @ \cup (more \ {"status.md"})] :
        more \in SUBSET {".claude/agents", "status.md", ".github/workflows"}}

\* .claude/commands with and without init.md and commit.md, and without the
\* directory (and so without the files in it)
CommandsProjects ==
    {[FullProject EXCEPT
        !.exists = (@ \ {".claude/commands", ".claude/commands/init.md",
                         ".claude/commands/commit.md"}) \cup there,
        !.dirs = (@ \ {".claude/commands"}) \cup (there \cap {".claude/commands"})] :
        there \in {{}} \cup {{".claude/commands"} \cup files :
                                files \in SUBSET {".claude/commands/init.md",
                                                  ".claude/commands/commit.md"}}}

InitReduced ==
    /\ \/ /\ _detectors \in ReducedRegistries
          /\ project \in GitignoreProjects \cup ClaudeMdProjects \cup DeniedProjects
                          \cup CleanProjects
       \/ /\ _detectors = DetectorClasses
          /\ project \in CommandsProjects \cup DeniedProjects \cup {EmptyProject, CleanProject}
    /\ _health_checker = None
    /\ nextId = 1
    /\ got = <<>>
    /\ report = NoReport
    /\ calls = <<>>
    /\ lastScan = NoScan
    /\ arg_issues = <<>>
    /\ arg_total = 0
    /\ ret_score = -1
    /\ scoreOp = "none"
    /\ det = NoCheck
    /\ made = NoneMade
    /\ shown = NoneShown
    /\ memo = NoMemo
    /\ home = NoHome

NextReduced ==
    \/ GetHealthChecker
    \/ \E config \in Configs : CheckProject(config) /\ UNCHANGED memo
    \/ \E i \in 1..Len(_detectors) : DetectorCheck(_detectors[i])

SpecReduced == InitReduced /\ [][NextReduced]_vars

(***************************************************************************)
(* Properties                                                              *)
(***************************************************************************)
Count(issues, sev) == Cardinality({i \in 1..Len(issues) : issues[i].severity = sev})
PenaltySum(issues) ==
    20 * Count(issues, CRITICAL) + 10 * Count(issues, WARNING) + 5 * Count(issues, INFO)
Scored == ret_score # -1

\* C1: _calculate_score returns max(0, 100 - 20*C - 10*W - 5*I) for the
\* numbers C, W, I of CRITICAL, WARNING and INFO issues of its list, and
\* total_checks has no influence on the result.
C1_ScoreFormula ==
    Scored =>
        /\ ret_score = Max(0, 100 - PenaltySum(arg_issues))
        /\ \A t \in 0..(MaxTotal + 1) : _calculate_score(arg_issues, t) = ret_score

\* the floor is reached by a list of all three severities, total_checks = 1
C1_Witness ==
    /\ scoreOp = "call"
    /\ arg_total = 1
    /\ PenaltySum(arg_issues) > 100
    /\ \A sev \in Severity : Count(arg_issues, sev) > 0
    /\ ret_score = 0

\* C2: the score of every report returned by check_project is an integer
\* in [0, 100], whatever the project and however many issues were found.
C2_ScoreBounds ==
    lastScan.scanned => report.score \in 0..100

\* a report whose issues cost more than 100 points
C2_Witness ==
    /\ lastScan.scanned
    /\ PenaltySum(report.issues) > 100
    /\ report.score = 0

\* the issues that a sequence of invocations returned, in invocation order
RECURSIVE ReturnedIssues(_)
ReturnedIssues(log) ==
    IF log = <<>> THEN <<>>
    ELSE (IF Head(log).result.kind = "issue" THEN <<Head(log).result.issue>> ELSE <<>>)
         \o ReturnedIssues(Tail(log))

Raises(k) == calls[k].result.kind = "raise"
Survivors == SelectSeq(calls, LAMBDA call : call.result.kind # "raise")

\* C3: when a detector of the checker's list raises from check, check_project
\* still returns a report; detectors_run counts the raising detector, every
\* other detector is invoked, no issue comes from the raising detector, and
\* the score is computed from the issues of the detectors that did not raise.
C3_FaultIsolation ==
    (lastScan.scanned /\ \E k \in 1..Len(calls) : Raises(k)) =>
        /\ report # NoReport
        /\ report.detectors_run = Len(_health_checker.detectors)
        /\ Len(calls) = Len(_health_checker.detectors)
        /\ \A i \in 1..Len(calls) : calls[i].detector = _health_checker.detectors[i]
        /\ report.issues = ReturnedIssues(Survivors)
        /\ \A k \in 1..Len(calls) :
              Raises(k) => \A n \in 1..Len(report.issues) :
                              report.issues[n].rule_id # rule_id(calls[k].detector.cls)
        /\ report.score = Max(0, 100 - PenaltySum(ReturnedIssues(Survivors)))

\* a detector raised, the detector after it returned an issue, and the score
\* is that of the surviving issues
C3_Witness ==
    /\ lastScan.scanned
    /\ \E k \in 1..(Len(calls) - 1) :
          Raises(k) /\ calls[k + 1].result.kind = "issue"
    /\ report.score = 60

\* C6: each detector invocation contributes at most one issue: the number of
\* issues of a report is at most detectors_run, and detectors_run is the
\* number of detectors in the checker's list.
C6_AtMostOnePerDetector ==
    lastScan.scanned =>
        /\ Len(report.issues) <= report.detectors_run
        /\ report.detectors_run = Len(_health_checker.detectors)
        /\ Len(calls) = report.detectors_run

\* a scan in which some detectors found an issue, one found none and one raised
C6_Witness ==
    /\ lastScan.scanned
    /\ Len(report.issues) > 0
    /\ Len(report.issues) < report.detectors_run
    /\ \E k \in 1..Len(calls) : Raises(k)
    /\ \E k \in 1..Len(calls) : calls[k].result.kind = "None"

Classes(instances) == [i \in 1..Len(instances) |-> instances[i].cls]
Invoked == [i \in 1..Len(calls) |-> calls[i].detector]

\* C7 as stated: every check_project call runs the full detector list of the
\* registry as it is when the call is made, also the types registered after
\* the checker was created.
C7_RunsCurrentRegistry ==
    lastScan.scanned => Classes(Invoked) = SubSeq(_detectors, 1, lastScan.registered)

\* C7 amended: a checker obtains its detector list from the registry once,
\* when it is constructed, and never changes it; every check_project call
\* runs exactly those instances, so a type registered after the checker (or
\* the singleton) was created is not run by that checker.
C7_RunsListOfConstruction ==
    /\ [](lastScan.scanned =>
            /\ Invoked = _health_checker.detectors
            /\ Len(Invoked) <= lastScan.registered
            /\ Classes(Invoked) = SubSeq(_detectors, 1, Len(Invoked)))
    /\ [][/\ (_health_checker.is_none /\ ~_health_checker'.is_none)
                => Classes(_health_checker'.detectors) = _detectors
          /\ ~_health_checker.is_none => _health_checker' = _health_checker]_vars

\* a scan made after a type was registered that the checker does not hold
C7_Witness ==
    /\ lastScan.scanned
    /\ lastScan.registered > Len(calls)
    /\ Len(_health_checker.detectors) = Len(calls)

Ident(instance) == <<instance.gen, instance.idx>>
Idents(instances) == {Ident(instances[i]) : i \in 1..Len(instances)}

\* C8: get_all_detectors returns one newly constructed instance per entry of
\* the catalog, in registration order; the instances differ from each other
\* and from those of every earlier call; two calls with no registration in
\* between give the same classes in the same order; the catalog is unchanged.
C8_GetAllDetectors ==
    [][(nextId' # nextId) =>
         LET result == IF _health_checker' # _health_checker
                       THEN _health_checker'.detectors ELSE got'
             earlier == Idents(got) \cup Idents(_health_checker.detectors)
         IN /\ Len(result) = Len(_detectors)
            /\ \A i \in 1..Len(result) : result[i].cls = _detectors[i]
            /\ \A i, j \in 1..Len(result) : i # j => Ident(result[i]) # Ident(result[j])
            /\ Idents(result) \cap earlier = {}
            /\ (Len(got) = Len(result) => Classes(got) = Classes(result))
            /\ _detectors' = _detectors]_vars

\* three calls were made, the last two directly, the last after a registration
C8_Witness ==
    /\ nextId = 4
    /\ ~_health_checker.is_none
    /\ Len(got) = Len(_detectors)
    /\ Len(got) > Len(_health_checker.detectors)

\* C9: the detectors are invoked one at a time in the order of the checker's
\* list, and the issues of the report are in the order of the detectors that
\* produced them.
C9_Order ==
    lastScan.scanned =>
        /\ \A i \in 1..Len(calls) : calls[i].detector.idx = i
        /\ Invoked = _health_checker.detectors
        /\ report.issues = ReturnedIssues(calls)

\* a report with issues of two rules, whose detectors are not neighbours
C9_Witness ==
    /\ lastScan.scanned
    /\ Len(report.issues) = 2
    /\ report.issues[1].rule_id = "bloated_claude_md"
    /\ report.issues[2].rule_id = "no-gitignore"

\* C10: a check_project call that follows another one of the same checker,
\* with the project and the environment unmodified in between, returns a
\* report with the same score, detectors_run and issue rule_ids and severities.
C10_Idempotence ==
    [][lastScan'.repeat => Outcome(report') = Outcome(report)]_vars

\* a repeated scan, made after a registration, of a project with issues
C10_Witness ==
    /\ lastScan.repeat
    /\ ~lastScan.dirty
    /\ lastScan.registered > Len(calls)
    /\ Len(report.issues) > 0
    /\ report.score > 0

\* C4: adding issues to a list never raises the score: score(B) <= score(A)
\* when B is A with one more issue (and so, step by step, with any more).
C4_Monotone ==
    [][scoreOp' = "add" => ret_score' <= ret_score]_vars

\* an issue was added to a list that now holds all three severities and
\* scores 5
C4_Witness ==
    /\ scoreOp = "add"
    /\ \A sev \in Severity : Count(arg_issues, sev) > 0
    /\ ret_score = 5

\* C5: the score is the same for every order of the same issues: exchanging
\* two issues of the list (exchanges generate every permutation) leaves the
\* score unchanged.
C5_OrderInvariant ==
    [][scoreOp' = "reorder" => ret_score' = ret_score]_vars

\* a reordered list of all three severities with a score strictly inside 0..100
C5_Witness ==
    /\ scoreOp = "reorder"
    /\ \A sev \in Severity : Count(arg_issues, sev) > 0
    /\ arg_issues[1].severity = INFO
    /\ ret_score \in 1..99

\* a check_project call was made in this step
ScanStep == lastScan'.scanned /\ ~lastScan'.dirty /\ lastScan' # lastScan

\* C11: check_project retains nothing and writes nothing: a scan leaves the
\* checker's detector list, the registry catalog and the files of the project
\* (and of the home) as they were, and the report of a scan is the one the
\* first scan of that same project state got, whatever was scanned in between.
C11_NothingRetained ==
    /\ []((memo.set /\ lastScan.scanned /\ ~lastScan.dirty
            /\ project = memo.project /\ home = memo.home)
           => Outcome(report) = memo.outcome)
    /\ [][ScanStep => /\ _detectors' = _detectors
                      /\ _health_checker' = _health_checker
                      /\ project' = project
                      /\ home' = home]_vars

\* the project state of the first scan, which had issues, was scanned again
\* after a scan of another project state
C11_Witness ==
    /\ memo.set /\ memo.others
    /\ lastScan.scanned /\ ~lastScan.dirty
    /\ project = memo.project /\ home = memo.home
    /\ Len(report.issues) > 0
    /\ report.score \in 1..99

CountClass(classes, cls) == Cardinality({i \in 1..Len(classes) : classes[i] = cls})
CountRule(issues, rid) == Cardinality({n \in 1..Len(issues) : issues[n].rule_id = rid})
Fires(cls) == check(cls, project, home, "empty").kind = "issue"

\* C12: registration does not deduplicate: every register call appends to the
\* catalog, a checker holds as many instances of a class as the catalog held
\* entries of it, a scan invokes each of them, a rule that fires gives one
\* issue per instance, and the score pays the penalty of each of them.
C12_NoDeduplication ==
    /\ [](~_health_checker.is_none =>
            \A cls \in AllClasses :
               CountClass(Classes(_health_checker.detectors), cls)
                 = CountClass(SubSeq(_detectors, 1, Len(_health_checker.detectors)), cls))
    /\ []((lastScan.scanned /\ ~lastScan.dirty) =>
            /\ \A cls \in AllClasses :
                  /\ CountClass(Classes(Invoked), cls)
                       = CountClass(Classes(_health_checker.detectors), cls)
                  /\ CountRule(report.issues, rule_id(cls))
                       = CountClass(Classes(Invoked), cls) * (IF Fires(cls) THEN 1 ELSE 0)
            /\ report.score = Max(0, 100 - PenaltySum(report.issues)))
    /\ [][_detectors' # _detectors =>
            /\ Len(_detectors') = Len(_detectors) + 1
            /\ SubSeq(_detectors', 1, Len(_detectors)) = _detectors]_vars

\* NoGitignoreDetector was registered twice before the checker was created, the
\* project has no .gitignore and nothing else wrong: two issues, 100 - 2 * 20
C12_Witness ==
    /\ lastScan.scanned /\ ~lastScan.dirty
    /\ CountClass(Classes(Invoked), "NoGitignoreDetector") = 2
    /\ Len(report.issues) = 2
    /\ report.issues[1].rule_id = "no-gitignore"
    /\ report.issues[2].rule_id = "no-gitignore"
    /\ report.score = 60

Has(issues, sev) == \E i \in 1..Len(issues) : issues[i].severity = sev

\* C13: has_critical of a HealthReport says whether the issue list given at
\* construction held a CRITICAL issue, and has_warnings whether it held a
\* WARNING issue, whatever was passed for the two flags and whatever was
\* appended to the issue list afterwards.
C13_DerivedFlags ==
    made.built =>
        /\ made.report.has_critical = Has(made.given, CRITICAL)
        /\ made.report.has_warnings = Has(made.given, WARNING)

\* built from one INFO issue with both flags passed as True; a CRITICAL and a
\* WARNING issue were appended afterwards: both flags are False
C13_Witness ==
    /\ made.built /\ made.changed
    /\ made.passed = <<TRUE, TRUE>>
    /\ made.given = <<TestIssue(INFO)>>
    /\ Has(made.report.issues, CRITICAL)
    /\ Has(made.report.issues, WARNING)
    /\ ~made.report.has_critical
    /\ ~made.report.has_warnings

\* C14: a score of 90 or more is (Excellent, green), 70..89 is (Good, yellow),
\* 50..69 is (Fair, orange) and less than 50 is (Needs Attention, red), for
\* every integer score, so that label and color are always of the same tier.
C14_LabelAndColor ==
    shown.label # "" =>
        <<shown.label, shown.color>> =
            CASE shown.score >= 90 -> <<"Excellent", "green">>
              [] shown.score \in 70..89 -> <<"Good", "yellow">>
              [] shown.score \in 50..69 -> <<"Fair", "orange">>
              [] shown.score < 50 -> <<"Needs Attention", "red">>

\* the lowest score of the best tier
C14_Witness ==
    /\ shown.score = 90
    /\ shown.label = "Excellent"
    /\ shown.color = "green"

Registered == {DetectorClasses[i] : i \in 1..Len(DetectorClasses)}
SettingsDetectors ==
    {"McpOverloadDetector", "ModelNotSetDetector", "ThinkingNotEnabledDetector",
     "NoHooksDetector", "InvalidHookKeysDetector"}
\* the candidate is missing or cannot be opened
BadText(fs, p) == p \notin fs.exists \/ p \in fs.unreadable \/ p \in fs.dirs
\* the candidate is missing, cannot be opened, is not JSON or is not a JSON object
BadJson(fs, p) == BadText(fs, p) \/ fs.json[p].kind \in {"corrupt", "nonobject"}

\* C15: no check of a registered detector raises because a candidate file is
\* missing, unreadable or not a JSON object: it returns an issue or None, and
\* it returns what it returns when the bad candidate is not there at all, so
\* the other candidates decide (settings.local.json when settings.json is
\* corrupt, the second CLAUDE.md when the first is unreadable, the project
\* alone when the home settings are corrupt).
C15_ErrorsSwallowed ==
    det.cls \in Registered =>
        /\ det.result.kind \in {"issue", "None"}
        /\ det.cls \in SettingsDetectors =>
              \A i \in 1..Len(settings_paths) :
                 BadJson(project, settings_paths[i]) =>
                    det.result = check(det.cls, Remove(project, settings_paths[i]),
                                       home, "empty")
        /\ det.cls = "BloatedClaudeMdDetector" =>
              \A i \in 1..Len(claude_md_paths) :
                 BadText(project, claude_md_paths[i]) =>
                    det.result = check(det.cls, Remove(project, claude_md_paths[i]),
                                       home, "empty")
        /\ (det.cls = "ModelNotSetDetector" /\ BadJson(home, "settings.json")) =>
              det.result = check(det.cls, project, NoHome, "empty")
        /\ (det.cls \in {"SecretsExposedDetector", "NoWorktreesDetector"}
              /\ ".gitignore" \in project.unreadable) =>
              det.result = check(det.cls, WriteGitignore(project, <<>>), home, "empty")

\* the detector acts on candidate i: it can be read, and no candidate before
\* it could be read or stopped the check
ActsOn(fs, i) ==
    /\ CanRead(fs, claude_md_paths[i])
    /\ \A k \in 1..(i - 1) :
          ~CanRead(fs, claude_md_paths[k]) /\ claude_md_paths[k] \notin fs.denied

\* C16: for the CLAUDE.md file that BloatedClaudeMdDetector acts on, with n
\* lines: n <= 50 gives no issue, 51 <= n <= 100 an issue of severity WARNING
\* and n >= 101 one of severity CRITICAL; the issue has the rule_id
\* bloated_claude_md and the counted file as file_path.
C16_BloatedThresholds ==
    det.cls = "BloatedClaudeMdDetector" =>
        \A i \in 1..Len(claude_md_paths) :
           ActsOn(project, i) =>
              LET n == project.lines[claude_md_paths[i]]
                  issue(sev) == [kind |-> "issue",
                                 issue |-> [rule_id |-> "bloated_claude_md",
                                            severity |-> sev,
                                            file_path |-> claude_md_paths[i]]]
              IN /\ n <= 50 => det.result.kind = "None"
                 /\ n \in 51..100 => det.result = issue("warning")
                 /\ n >= 101 => det.result = issue("critical")

\* .claude/CLAUDE.md has 50 lines and CLAUDE.md at the root 101: no issue
C16_Witness ==
    /\ det.cls = "BloatedClaudeMdDetector"
    /\ ActsOn(project, 1)
    /\ project.lines[claude_md_paths[1]] = 50
    /\ CanRead(project, claude_md_paths[2])
    /\ project.lines[claude_md_paths[2]] = 101
    /\ det.result.kind = "None"

CandidateDetectors ==
    {"BloatedClaudeMdDetector"} \cup SettingsDetectors
CandidatesOf(cls) == IF cls = "BloatedClaudeMdDetector" THEN claude_md_paths ELSE settings_paths
\* the candidate is there and its content can be used
Usable(cls, fs, p) ==
    IF cls = "BloatedClaudeMdDetector" THEN ~BadText(fs, p) ELSE ~BadJson(fs, p)
\* the project with candidate i of the two as its only candidate
OnlyCandidate(fs, paths, i) == Remove(fs, paths[3 - i])
\* the hook objects with keys outside the allowed set that one settings file
\* holds in list-valued entries, as <<entry, position>>
Offenders(fs, p) ==
    IF BadJson(fs, p) \/ fs.json[p].hooks.kind # "dict" THEN {}
    ELSE {<<k, n>> \in (1..Len(fs.json[p].hooks.entries)) \X (1..2) :
            LET e == fs.json[p].hooks.entries[k] IN
              /\ e.kind = "list" /\ n <= Len(e.objs) /\ e.objs[n].isdict
              /\ e.objs[n].keys \ {"type", "command", "blocking", "successMessage",
                                    "errorMessage", "filePatterns"} # {}}
Servers(fs, p) ==
    IF BadJson(fs, p) \/ fs.json[p].mcpServers.kind # "dict" THEN 0
    ELSE fs.json[p].mcpServers.n
HasEnv(fs, p, key) ==
    ~BadJson(fs, p) /\ fs.json[p].env.kind = "dict" /\ key \in fs.json[p].env.keys
HasHooks(fs, p) ==
    ~BadJson(fs, p) /\ fs.json[p].hooks.kind = "dict" /\ fs.json[p].hooks.n > 0

\* C17 as stated: each of the six detectors decides from the first candidate
\* found alone: its result is the one it gives when that candidate is the
\* only one (for model-not-set: and the home settings are not there).
C17_FirstCandidateAlone ==
    det.cls \in CandidateDetectors =>
        LET paths == CandidatesOf(det.cls)
            found == {i \in 1..Len(paths) : Usable(det.cls, project, paths[i])}
        IN found # {} =>
              LET first == CHOOSE i \in found : \A j \in found : i <= j
              IN det.result = check(det.cls, OnlyCandidate(project, paths, first),
                                    IF det.cls = "ModelNotSetDetector" THEN NoHome ELSE home,
                                    "empty")

\* C17 amended: the candidates are examined in declared order, and
\*  - bloated_claude_md returns an issue only for the first candidate that can
\*    be read, by its line count alone, and None only when that candidate has
\*    at most 50 lines or no candidate can be read;
\*  - mcp-overload returns an issue only when the servers of all usable
\*    candidates together are more than 3, and None only when they are not;
\*  - invalid-hook-keys returns an issue only when some usable candidate holds
\*    an offending hook object, and None only when none does;
\*  - model-not-set, thinking-not-enabled and no-hooks return None only when
\*    some usable candidate (any of them, for model-not-set also the home
\*    settings) has the setting, and an issue only when none has.
C17_CandidateUse ==
    LET issue == det.result.kind = "issue"
        none == det.result.kind = "None"
        some(Holds(_)) == \E i \in 1..Len(settings_paths) : Holds(settings_paths[i])
    IN
    /\ det.cls = "BloatedClaudeMdDetector" =>
          LET readable == {i \in 1..Len(claude_md_paths) : ~BadText(project, claude_md_paths[i])}
              first == CHOOSE i \in readable : \A j \in readable : i <= j
          IN /\ issue => /\ readable # {}
                         /\ det.result.issue.file_path = claude_md_paths[first]
                         /\ project.lines[claude_md_paths[first]] > 50
                         /\ det.result.issue.severity =
                              IF project.lines[claude_md_paths[first]] > 100
                              THEN "critical" ELSE "warning"
             /\ none => readable = {} \/ project.lines[claude_md_paths[first]] <= 50
    /\ det.cls = "McpOverloadDetector" =>
          LET total == Servers(project, SettingsJson) + Servers(project, SettingsLocalJson)
          IN (issue => total > 3) /\ (none => total <= 3)
    /\ det.cls = "InvalidHookKeysDetector" =>
          /\ issue => some(LAMBDA p : Offenders(project, p) # {})
          /\ none => ~some(LAMBDA p : Offenders(project, p) # {})
    /\ det.cls = "ModelNotSetDetector" =>
          LET set == \/ some(LAMBDA p : HasEnv(project, p, "ANTHROPIC_MODEL"))
                     \/ HasEnv(home, "settings.json", "ANTHROPIC_MODEL")
          IN (none => set) /\ (issue => ~set)
    /\ det.cls = "ThinkingNotEnabledDetector" =>
          LET set == some(LAMBDA p : HasEnv(project, p, "MAX_THINKING_TOKENS"))
          IN (none => set) /\ (issue => ~set)
    /\ det.cls = "NoHooksDetector" =>
          LET set == some(LAMBDA p : HasHooks(project, p))
          IN (none => set) /\ (issue => ~set)

\* two servers in settings.json and two in settings.local.json: an issue,
\* which neither file gives alone
C17_Witness ==
    /\ det.cls = "McpOverloadDetector"
    /\ Servers(project, SettingsJson) = 2
    /\ Servers(project, SettingsLocalJson) = 2
    /\ det.result.kind = "issue"

\* the disallowed keys of hook object n of entry k of one settings file
Disallowed(fs, p, k, n) ==
    fs.json[p].hooks.entries[k].objs[n].keys
        \ {"type", "command", "blocking", "successMessage", "errorMessage", "filePatterns"}
AllOffenders(fs) ==
    {<<p, o[1], o[2]>> : p \in {SettingsJson}, o \in Offenders(fs, SettingsJson)}
    \cup {<<p, o[1], o[2]>> : p \in {SettingsLocalJson}, o \in Offenders(fs, SettingsLocalJson)}

\* C18: however many hook objects of settings.json and settings.local.json
\* together have keys outside the allowed set, check returns exactly one
\* WARNING issue whose message has one line per offending hook object, naming
\* all of its disallowed keys; when there is none, check returns None.
C18_OneIssueForAll ==
    det.cls = "InvalidHookKeysDetector" =>
        IF AllOffenders(project) = {} THEN det.result = Absent
        ELSE /\ det.result.kind = "issue"
             /\ det.result.issue.severity = "warning"
             /\ det.result.issue.rule_id = "invalid-hook-keys"
             /\ Len(det.message.lines) = Cardinality(AllOffenders(project))
             /\ \A o \in AllOffenders(project) :
                    \E i \in 1..Len(det.message.lines) :
                       /\ det.message.lines[i].file = PathName(o[1])
                       /\ det.message.lines[i].hook =
                            <<project.json[o[1]].hooks.entries[o[2]].name, o[3] - 1>>
                       /\ det.message.lines[i].keys = Disallowed(project, o[1], o[2], o[3])

\* the line of the message that reports hook object n of entry k of file p
Reported(p, k, n) ==
    /\ det.result.kind = "issue"
    /\ \E i \in 1..Len(det.message.lines) :
          /\ det.message.lines[i].file = PathName(p)
          /\ det.message.lines[i].hook = <<project.json[p].hooks.entries[k].name, n - 1>>
          /\ det.message.lines[i].keys = Disallowed(project, p, k, n)
HookFiles(fs) ==
    {p \in {SettingsJson, SettingsLocalJson} : ~BadJson(fs, p) /\ fs.json[p].hooks.kind = "dict"}

NoGitignoreIssue(issue) == issue.severity = "critical" /\ issue.rule_id = "no-gitignore"

Referenced(fs, f) ==
    /\ ".gitignore" \in fs.exists /\ ".gitignore" \notin fs.unreadable
    /\ \E i \in 1..Len(fs.gitignore) : fs.gitignore[i].body = f
\* the sensitive files that are there and not referenced, in checking order
Exposed(fs) ==
    SelectSeq(<<".env", ".claude/settings.local.json">>,
              LAMBDA f : f \in fs.exists /\ ~Referenced(fs, f))

\* C21: SecretsExposed returns a CRITICAL issue exactly when .env or
\* .claude/settings.local.json exists and no line of .gitignore is, stripped,
\* its relative path; the issue names the first such file; otherwise it
\* returns None.
C21_SecretsExposed ==
    det.cls = "SecretsExposedDetector" =>
        IF Exposed(project) = <<>> THEN det.result = Absent
        ELSE /\ det.result.kind = "issue"
             /\ det.result.issue.severity = "critical"
             /\ det.result.issue.rule_id = "secrets-exposed"
             /\ det.result.issue.file_path = Exposed(project)[1]

\* C22: on the clean project no covered detector reports an issue, and a
\* scan with the registry reduced to the covered detectors runs all thirteen
\* and gives score 100 and an empty issue list.
C22_CleanProject ==
    (project \in CleanProjects /\ _detectors = CoveredRegistry) =>
        /\ Len(_detectors) = 13
        /\ det.cls \in CoveredClasses => det.result = Absent
        /\ lastScan.scanned =>
              /\ report.score = 100
              /\ report.issues = <<>>
              /\ report.detectors_run = 13

\* the clean project scanned, after the last covered detector was called
C22_Witness ==
    /\ project = CleanProject /\ _detectors = CoveredRegistry
    /\ det.cls = "MissingEnvExampleDetector" /\ det.result = Absent
    /\ lastScan.scanned /\ report.score = 100 /\ report.detectors_run = 13

\* the checker whose list was built from the catalog as the package loads it
DefaultChecker ==
    /\ ~_health_checker.is_none
    /\ [i \in 1..Len(_health_checker.detectors) |-> _health_checker.detectors[i].cls]
         = DetectorClasses
Distinct(ids) == \A i \in 1..Len(ids) : \A j \in 1..Len(ids) : i # j => ids[i] # ids[j]

\* C23: the catalog of the loaded package holds each imported class once: the
\* list get_all_detectors() gives has at least 22 entries (23 when nothing was
\* registered later), the rule_ids of the loaded classes are pairwise
\* distinct and include "no-gitignore" and "secrets-exposed", and a report of
\* the default checker has no two issues with the same rule_id.
C23_DistinctRuleIds ==
    /\ Len(_detectors) >= 23
    /\ Distinct(SubSeq(_detectors, 1, 23))
    /\ Distinct([i \in 1..23 |-> rule_id(_detectors[i])])
    /\ ~_health_checker.is_none =>
          /\ Len(_health_checker.detectors) >= 22
          /\ \A id \in {"no-gitignore", "secrets-exposed"} :
                \E i \in 1..Len(_health_checker.detectors) :
                   rule_id(_health_checker.detectors[i].cls) = id
    /\ DefaultChecker => Len(_health_checker.detectors) = 23
    /\ (DefaultChecker /\ lastScan.scanned) =>
          Distinct([i \in 1..Len(report.issues) |-> report.issues[i].rule_id])

\* the default checker scanned a project and found several issues
C23_Witness ==
    /\ DefaultChecker /\ lastScan.scanned
    /\ Len(report.issues) >= 2
    /\ \E i \in 1..Len(report.issues) : report.issues[i].rule_id = "no-commit-command"

\* C24: every registered detector has a fix_prompt that is not None and not
\* empty, and every issue a detector returns carries that detector's rule_id
\* and that detector's fix_prompt.
C24_FixPrompt ==
    /\ \A i \in 1..Len(_detectors) :
          fix_prompt(_detectors[i]) # NoPrompt /\ fix_prompt(_detectors[i]).len > 0
    /\ det.result.kind = "issue" =>
          /\ det.cls \in Registered
          /\ det.result.issue.rule_id = rule_id(det.cls)
          /\ det.fix_prompt.owner = det.cls
          /\ det.fix_prompt = fix_prompt(det.cls)

\* an issue of invalid-hook-keys with the prompt of that class
C24_Witness ==
    /\ det.cls = "InvalidHookKeysDetector"
    /\ det.result.kind = "issue"
    /\ det.result.issue.rule_id = "invalid-hook-keys"
    /\ det.fix_prompt = [owner |-> "InvalidHookKeysDetector", len |-> 931]

\* the source files the claim counts: a looked-at extension, more than 400
\* lines that can be read, and no excluded directory between the project
\* root and the file
Counted(fs) ==
    {f \in fs.sources :
        /\ f.ext \in {"py", "js", "ts", "jsx", "tsx"}
        /\ f.readable /\ f.lines > 400
        /\ \A i \in 1..Len(f.dir) :
              f.dir[i] \notin {"node_modules", "venv", ".venv", "venv_312", ".git",
                               "__pycache__", "dist", "build", ".next", ".nuxt",
                               "site-packages"}}

\* C25: LargeFiles returns one WARNING issue when at least one source file
\* with more than 400 lines lies outside the excluded directories of the
\* project, and None otherwise; the directories above the project root do not
\* affect the result.
C25_LargeFiles ==
    det.cls = "LargeFilesDetector" =>
        IF Counted(project) = {} THEN det.result = Absent
        ELSE /\ det.result.kind = "issue"
             /\ det.result.issue.severity = "warning"
             /\ det.result.issue.rule_id = "large-files"

Bands == (80..89) \cup (60..69) \cup (40..49)
NextBetter(label) ==
    CASE label = "Good" -> "Excellent"
      [] label = "Fair" -> "Good"
      [] label = "Needs Attention" -> "Fair"
      [] OTHER -> ""

\* C27: for the same score in 0..100, the label that append_scan_result
\* writes equals the label of get_score_label, except in 80..89, 60..69 and
\* 40..49, where the status log writes the next better label.
C27_LabelTables ==
    (shown.label # "" /\ shown.entry.label # ""
       /\ shown.entry.score = shown.score /\ shown.score \in 0..100) =>
        IF shown.score \in Bands
        THEN shown.entry.label = NextBetter(shown.label) /\ shown.entry.label # shown.label
        ELSE shown.entry.label = shown.label

\* 85: "Good" on the page, "Excellent" in the status log
C27_Witness ==
    /\ shown.score = 85 /\ shown.entry.score = 85
    /\ shown.label = "Good"
    /\ shown.entry.label = "Excellent"

\* C28: the report does not depend on the config argument: a scan of a
\* project state gives the score, detectors_run and issues that the first scan
\* of that same state gave, whichever of None, {} and a parsed configuration
\* each of the two scans was given.
C28_ConfigIndependent ==
    (memo.set /\ lastScan.scanned /\ ~lastScan.dirty
       /\ project = memo.project /\ home = memo.home /\ memo.latest # memo.config)
      => Outcome(report) = memo.outcome

\* a project state with issues, scanned first with None and now with a parsed
\* configuration
C28_Witness ==
    /\ memo.set /\ lastScan.scanned /\ ~lastScan.dirty
    /\ project = memo.project /\ home = memo.home
    /\ memo.config = "None" /\ memo.latest = "parsed"
    /\ Len(report.issues) > 0

\* C29: ModelNotSet returns None exactly when env.ANTHROPIC_MODEL is present
\* in a readable .claude/settings.json or .claude/settings.local.json of the
\* project or in ~/.claude/settings.json, and a WARNING issue otherwise.
C29_ModelNotSet ==
    det.cls = "ModelNotSetDetector" =>
        IF \/ HasEnv(project, ".claude/settings.json", "ANTHROPIC_MODEL")
           \/ HasEnv(project, ".claude/settings.local.json", "ANTHROPIC_MODEL")
           \/ HasEnv(home, "settings.json", "ANTHROPIC_MODEL")
        THEN det.result = Absent
        ELSE /\ det.result.kind = "issue"
             /\ det.result.issue.severity = "warning"
             /\ det.result.issue.rule_id = "model-not-set"

Reports(rid) == \E n \in 1..Len(report.issues) : report.issues[n].rule_id = rid

\* C30: in a report of the default checker, the issue "no-commands-dir" comes
\* with the issues "no-init-command" and "no-commit-command", so that a
\* missing .claude/commands directory costs at least 10 + 5 + 5 points.
C30_CommandsDir ==
    (DefaultChecker /\ lastScan.scanned /\ Reports("no-commands-dir")) =>
        /\ Reports("no-init-command")
        /\ Reports("no-commit-command")
        /\ report.score <= 100 - (10 + 5 + 5)

\* .claude/commands is there but empty: both command issues without
\* "no-commands-dir"
C30_Witness ==
    /\ DefaultChecker /\ lastScan.scanned
    /\ ".claude/commands" \in project.exists
    /\ Reports("no-init-command") /\ Reports("no-commit-command")
    /\ ~Reports("no-commands-dir")

====
